---------------------------- MODULE Spec2Model ----------------------------
(***************************************************************************)
(* A model of the goal-arbitration engine: core/goalModule.py (Goal and    *)
(* its recursive effective_value) and core/arbitrator.py (GoalArbitrator   *)
(* with its max, softmax, nash and lyapunov modes).                        *)
(*                                                                         *)
(* Python floats are modelled as exact rationals <<n, d>> in lowest terms  *)
(* with d > 0.  A call either returns or raises: the result of an          *)
(* evaluation is a record [ok, v, exc].                                    *)
(***************************************************************************)
EXTENDS Integers, Sequences, FiniteSets, TLC

\* ------------------------------------------------------------------ bounds

\* Depth of nested effective_value calls at which the interpreter raises
\* RecursionError (sys.getrecursionlimit() frames in CPython).
RecursionLimit == 4

\* Total number of entries in all dependency lists together.
MaxEdges == 2

\* Length of the goal lists and value lists that the runs pass.
MaxGoals == 3

\* math.exp(x) is 0.0 for every x below minus this (745.13... for doubles,
\* scaled to the values of the model).
ExpUnderflow == 6

\* math.exp(x) is exactly 1.0 for every x <= 0 above -1/2^ExpPrecision
\* (2^-54 for doubles, scaled to the values of the model).
ExpPrecision == 8

\* ----------------------------------------------------------- float arithmetic

\* The operators below bind each argument once (x \in {a}) before they use
\* it, so that an argument is evaluated once however often it is used.

RECURSIVE Gcd(_, _)
Gcd(a, b) ==
    IF b = 0 THEN a ELSE CHOOSE r \in {Gcd(b, m) : m \in {a % b}} : TRUE

IAbs(n) == IF n < 0 THEN -n ELSE n

\* The rational n/d in lowest terms with a positive denominator.
Rat(n, d) ==
    CHOOSE r \in { LET s == IF y < 0 THEN -1 ELSE 1
                      g == Gcd(IAbs(x), IAbs(y))
                  IN  <<(s * x) \div g, (s * y) \div g>> :
                  x \in {n}, y \in {d} } : TRUE

RZero == <<0, 1>>
ROne  == <<1, 1>>

\* a + b
RAdd(a, b) ==
    CHOOSE r \in { Rat(x[1] * (l \div x[2]) + y[1] * (l \div y[2]), l) :
                  <<x, y, l>> \in {<<a, b, (a[2] \div Gcd(a[2], b[2])) * b[2]>>} } : TRUE

\* -a
RNeg(a) == CHOOSE r \in { <<-x[1], x[2]>> : x \in {a} } : TRUE

\* a - b
RSub(a, b) == RAdd(a, RNeg(b))

\* a * b
RMul(a, b) ==
    CHOOSE r \in { LET g1 == Gcd(IAbs(x[1]), y[2])
                      g2 == Gcd(IAbs(y[1]), x[2])
                  IN  Rat((x[1] \div g1) * (y[1] \div g2),
                          (x[2] \div g2) * (y[2] \div g1)) :
                  x \in {a}, y \in {b} } : TRUE

\* a / b for b # 0.
RDiv(a, b) == CHOOSE r \in { RMul(a, Rat(y[2], y[1])) : y \in {b} } : TRUE

\* a < b
RLt(a, b) == \E x \in {a}, y \in {b} : x[1] * y[2] < y[1] * x[2]

\* a <= b
RLe(a, b) == \E x \in {a}, y \in {b} : x[1] * y[2] <= y[1] * x[2]

\* max(a, b)
RMax(a, b) == CHOOSE r \in { IF RLt(x, y) THEN y ELSE x : x \in {a}, y \in {b} } : TRUE

\* abs(a)
RAbs(a) == CHOOSE r \in { <<IAbs(x[1]), x[2]>> : x \in {a} } : TRUE

RECURSIVE RSum(_)
RSum(vals) == IF vals = <<>> THEN RZero ELSE RAdd(Head(vals), RSum(Tail(vals)))

\* ------------------------------------------------------------ call outcomes

Ok(v) == [ok |-> TRUE, v |-> v, exc |-> "none"]

Raise(e) == [ok |-> FALSE, v |-> RZero, exc |-> e]

\* ------------------------------------------------------------------- state

\* The keys of the state dictionary that the engine reads.
Keys == {"novelty", "risk", "safety_level"}

\* A key that the dictionary does not hold.
Absent == <<0, 0>>

\* dict.get(key, default)
StateGet(state, key, default) ==
    IF state[key] = Absent THEN default ELSE state[key]

\* bool(state): an empty dictionary is false.
StateTruthy(state) == \E k \in Keys : state[k] # Absent

EmptyState == [k \in Keys |-> Absent]

RiskyState == [novelty |-> <<1, 1>>, risk |-> <<1, 2>>, safety_level |-> <<1, 2>>]

\* The states that the runs pass: the empty dictionary, where every lookup
\* takes its default, and one that holds every key.
States == {EmptyState, RiskyState}

\* The times that the runs pass: linear_urgency is 1.5 at t = -0.5 (nothing
\* clamps it to 1) and 0.5 at t = 0.5.
Times == {<<-1, 2>>, <<1, 2>>}

\* ------------------------------------------------------------------ traits

URGENCY_SENSITIVE == "URGENCY_SENSITIVE"
RISK_AVERSE == "RISK_AVERSE"
EXPLORATORY == "EXPLORATORY"

\* TraitSet.has_trait: membership by trait name.
HasTrait(traits, trait) == trait \in traits

\* ------------------------------------------------- urgency and utility functions

\* linear_urgency(t) = max(0.0, 1.0 - t)
linear_urgency == [fn |-> "linear_urgency", c |-> RZero]

\* curiosity_utility(state) = state.get('novelty', 0.5)
curiosity_utility == [fn |-> "curiosity_utility", c |-> RZero]

\* safety_utility(state) = state.get('safety_level', 1.0)
safety_utility == [fn |-> "safety_utility", c |-> RZero]

\* lambda _: c
Const(c) == [fn |-> "const", c |-> c]

\* A callable that raises when it is called.
Raises == [fn |-> "raises", c |-> RZero]

CallUrgencyFn(f, t) ==
    CASE f.fn = "linear_urgency" -> Ok(RMax(RZero, RSub(ROne, t)))
      [] f.fn = "const" -> Ok(f.c)
      [] OTHER -> Raise("Exception")

CallUtilityFn(f, state) ==
    CASE f.fn = "curiosity_utility" -> Ok(StateGet(state, "novelty", <<1, 2>>))
      [] f.fn = "safety_utility" -> Ok(StateGet(state, "safety_level", ROne))
      [] f.fn = "const" -> Ok(f.c)
      [] OTHER -> Raise("Exception")

\* -------------------------------------------------------------------- Goal

Names == {"A", "B", "C"}

\* goals: the Goal objects of core/goalModule.py, by name; arb: the
\* GoalArbitrator of core/arbitrator.py; ret: the most recent call and its
\* outcome; nodes: the Goal objects of core/RecursiveGoalManager.py, by name;
\* manager: the RecursiveGoalManager; cstate: the CognitiveState; stack: the
\* TraitStack of core/traits.py.
VARIABLES goals, arb, ret, nodes, manager, cstate, stack

vars == <<goals, arb, ret, nodes, manager, cstate, stack>>

\* The runs of the goals and of the arbitrator construct no goal hierarchy,
\* no manager, no CognitiveState and no TraitStack.
NoNodes == <<>>

NoManager == [root_goal |-> "None", mode |-> "None", temperature |-> <<0, 1>>,
              t |-> <<0, 1>>]

NoCognitiveState == [state_data |-> <<>>, history |-> <<>>]

NoTraitStack == [cls |-> "None"]

\* The objects that a run of the goals and of the arbitrator leaves alone.
others == <<nodes, manager, cstate, stack>>

\* Goal.__init__
Goal(urgency_fn, utility_fn, dependencies, traits) ==
    [urgency_fn |-> urgency_fn, utility_fn |-> utility_fn,
     dependencies |-> dependencies, traits |-> traits]

\* The URGENCY_SENSITIVE step of Goal.urgency.
UrgencySensitive(traits, base) ==
    IF HasTrait(traits, URGENCY_SENSITIVE)
    THEN RMul(base, RAdd(ROne, RMul(<<1, 2>>, RSub(ROne, base))))
    ELSE base

\* The RISK_AVERSE step of Goal.urgency.
UrgencyRiskAverse(traits, base, state) ==
    IF HasTrait(traits, RISK_AVERSE)
    THEN RMul(base, RMax(<<1, 10>>,
                         RSub(ROne, IF StateTruthy(state)
                                    THEN StateGet(state, "risk", RZero)
                                    ELSE RZero)))
    ELSE base

\* Goal.urgency with the result clamped to at most 1.0.
UrgencyClamped(goal, t, state) ==
    CHOOSE u \in
        { IF r.ok
          THEN Ok(UrgencyRiskAverse(goal.traits,
                                    UrgencySensitive(goal.traits,
                                                     IF RLt(ROne, r.v) THEN ROne ELSE r.v),
                                    state))
          ELSE r :
          r \in {CallUrgencyFn(goal.urgency_fn, t)} } : TRUE

\* Goal.urgency
Urgency(goal, t, state) ==
    CHOOSE u \in
        { IF r.ok
          THEN Ok(UrgencyRiskAverse(goal.traits,
                                    UrgencySensitive(goal.traits, r.v), state))
          ELSE r :
          r \in {CallUrgencyFn(goal.urgency_fn, t)} } : TRUE

\* The EXPLORATORY step of Goal.utility.
UtilityExploratory(traits, base, state) ==
    IF HasTrait(traits, EXPLORATORY)
    THEN RMul(base, RAdd(ROne, RMul(<<1, 2>>, StateGet(state, "novelty", <<1, 2>>))))
    ELSE base

\* The RISK_AVERSE step of Goal.utility.
UtilityRiskAverse(traits, base, state) ==
    IF HasTrait(traits, RISK_AVERSE)
    THEN RMul(base, StateGet(state, "safety_level", ROne))
    ELSE base

\* Goal.utility
Utility(goal, state) ==
    CHOOSE f \in
        { IF r.ok
          THEN Ok(UtilityRiskAverse(goal.traits,
                                    UtilityExploratory(goal.traits, r.v, state), state))
          ELSE r :
          r \in {CallUtilityFn(goal.utility_fn, state)} } : TRUE

\* Goal.base_effective_value: urgency is evaluated first and, if it returns,
\* utility.
BaseEffectiveValue(goal, t, state) ==
    CHOOSE b \in
        { IF ~u.ok THEN u
          ELSE CHOOSE c \in { IF ~f.ok THEN f ELSE Ok(RMul(u.v, f.v)) :
                              f \in {Utility(goal, state)} } : TRUE :
          u \in {Urgency(goal, t, state)} } : TRUE

\* The dependency term as the sum of the values instead of their mean.
DepAggregateSum(dep_values) == RSum(dep_values)

\* The last line of Goal.dependency_value, over the values of a non-empty list.
DepAggregate(dep_values) == RDiv(RSum(dep_values), <<Len(dep_values), 1>>)

\* The trait modifiers of Goal.effective_value.
TraitMod(goal, base, state) ==
    RAdd(RSub(RAdd(RZero,
                   IF HasTrait(goal.traits, URGENCY_SENSITIVE)
                   THEN RMul(<<1, 10>>, base) ELSE RZero),
              IF HasTrait(goal.traits, RISK_AVERSE)
              THEN RMul(RMul(<<1, 5>>, StateGet(state, "risk", RZero)), base)
              ELSE RZero),
         IF HasTrait(goal.traits, EXPLORATORY)
         THEN RMul(RMul(<<3, 20>>, StateGet(state, "novelty", <<1, 2>>)), base)
         ELSE RZero)

\* The return statement of Goal.effective_value.
Combine(base, dep_bonus, trait_mod) == RAdd(RAdd(base, dep_bonus), trait_mod)

NoValues == [ok |-> TRUE, vals |-> <<>>, exc |-> "none"]

RaiseValues(e) == [ok |-> FALSE, vals |-> <<>>, exc |-> e]

RECURSIVE EffectiveValue(_, _, _, _, _)
RECURSIVE DepValues(_, _, _, _, _, _)

\* The list comprehension of Goal.dependency_value from position i of the
\* list on: the dependencies are evaluated in list order and the first one
\* that raises ends the evaluation.  Returns [ok, vals, exc].
DepValues(G, deps, i, t, state, depth) ==
    IF i > Len(deps) THEN NoValues
    ELSE CHOOSE d \in
        { IF ~h.ok THEN RaiseValues(h.exc)
          ELSE CHOOSE e \in
                  { IF ~r.ok THEN r
                    ELSE [ok |-> TRUE, vals |-> <<h.v>> \o r.vals, exc |-> "none"] :
                    r \in {DepValues(G, deps, i + 1, t, state, depth)} } : TRUE :
          h \in {EffectiveValue(G, deps[i], t, state, depth)} } : TRUE

\* Goal.dependency_value, called at nesting depth `depth`.
DependencyValue(G, goal, t, state, depth) ==
    IF goal.dependencies = <<>> THEN Ok(RZero)
    ELSE CHOOSE d \in
        { IF ~dep_values.ok THEN Raise(dep_values.exc)
          ELSE Ok(DepAggregate(dep_values.vals)) :
          dep_values \in {DepValues(G, goal.dependencies, 1, t, state, depth + 1)} } : TRUE

\* Goal.effective_value of the goal named g in the heap G, called at nesting
\* depth `depth`.  Nothing in the code remembers the goals already on the
\* recursion path: a call nested deeper than the interpreter allows raises
\* RecursionError, which like every exception unwinds to the outermost caller.
EffectiveValue(G, g, t, state, depth) ==
    IF depth > RecursionLimit THEN Raise("RecursionError")
    ELSE CHOOSE e \in
        { IF ~base.ok THEN base
          ELSE CHOOSE v \in
                  { IF ~dep_bonus.ok THEN dep_bonus
                    ELSE Ok(Combine(base.v, dep_bonus.v,
                                    TraitMod(G[g], base.v, state))) :
                    dep_bonus \in {DependencyValue(G, G[g], t, state, depth)} } : TRUE :
          base \in {BaseEffectiveValue(G[g], t, state)} } : TRUE

\* ------------------------------------------------------------ GoalArbitrator

\* A name under which _previous_values holds nothing.
NoHistory == [n \in Names |-> Absent]

\* GoalArbitrator.__init__
GoalArbitrator(goal_list, mode, temperature, nash_iterations, delta_t) ==
    [goals |-> goal_list, mode |-> mode, temperature |-> temperature,
     nash_iterations |-> nash_iterations, previous_values |-> NoHistory,
     delta_t |-> delta_t]

\* The default of the nash_iterations parameter.
DefaultNashIterations == 20

\* GoalArbitrator(): no goals, mode 'softmax', temperature 1.0, delta_t 0.1.
DefaultArbitrator ==
    GoalArbitrator(<<>>, "softmax", ROne, DefaultNashIterations, <<1, 10>>)

RECURSIVE Pow2(_)
Pow2(k) == IF k = 0 THEN 1 ELSE 2 * Pow2(k - 1)

\* The exponents x <= 0 so close to 0 that math.exp(x) rounds to 1.0.
RoundsToOne(x) == RLe(x, RZero) /\ RLt(<<-1, Pow2(ExpPrecision)>>, x)

\* math.exp on the exponents that the model produces: x |-> 4^x on the
\* multiples of 1/2, which like exp is 1 at 0, positive and increasing; 0.0
\* below -ExpUnderflow, where the double underflows; 1.0 within the rounding
\* distance of 0.
Exp(x) ==
    IF RLt(x, <<-ExpUnderflow, 1>>) THEN RZero
    ELSE IF RoundsToOne(x) THEN ROne
    ELSE CHOOSE e \in { IF h < 0 THEN <<1, Pow2(-h)>> ELSE <<Pow2(h), 1>> :
                        h \in {x[1] * (2 \div x[2])} } : TRUE

\* max(values) of a non-empty list.
RECURSIVE RMaxSeq(_)
RMaxSeq(vals) ==
    IF Len(vals) = 1 THEN Head(vals) ELSE RMax(Head(vals), RMaxSeq(Tail(vals)))

\* values.index(x): the first position that holds x.
Index(vals, x) ==
    CHOOSE i \in 1..Len(vals) : vals[i] = x /\ \A j \in 1..(i - 1) : vals[j] # x

\* A normalisation that divides by the number of values instead of their sum.
NormalizeByCount(exps) == [i \in 1..Len(exps) |-> RDiv(exps[i], <<Len(exps), 1>>)]

\* The normalisation of GoalArbitrator.softmax: e / sum_exps for each e, or
\* the uniform distribution if sum_exps is 0.
Normalize(exps) ==
    CHOOSE probs \in
        { IF sum_exps = RZero
          THEN [i \in 1..Len(exps) |-> Rat(1, Len(exps))]
          ELSE [i \in 1..Len(exps) |-> RDiv(exps[i], sum_exps)] :
          sum_exps \in {RSum(exps)} } : TRUE

\* The exponent that GoalArbitrator.softmax passes to math.exp.
Exponent(v, max_val, temperature) == RDiv(RSub(v, max_val), temperature)

\* GoalArbitrator.softmax, for a temperature above 0.
Softmax(values, temperature) ==
    IF values = <<>> THEN <<>>
    ELSE CHOOSE probs \in
        { Normalize([i \in 1..Len(values) |->
                        Exp(Exponent(values[i], max_val, temperature))]) :
          max_val \in {RMaxSeq(values)} } : TRUE

\* [g.effective_value(t, state) for g in self.goals]
GoalValues(G, goal_list, t, state) == DepValues(G, goal_list, 1, t, state, 1)

\* What an arbitration returns: the outcome and the arbitrator after the call.
Selected(g, a) == [ok |-> TRUE, goal |-> g, exc |-> "none", arb |-> a]

SelectedNone(a) == [ok |-> TRUE, goal |-> "None", exc |-> "none", arb |-> a]

SelectRaise(e, a) == [ok |-> FALSE, goal |-> "None", exc |-> e, arb |-> a]

\* The goal at the last position that holds the greatest value.
LastMax(goal_list, values) ==
    goal_list[CHOOSE i \in 1..Len(values) :
                 /\ values[i] = RMaxSeq(values)
                 /\ \A j \in (i + 1)..Len(values) : values[j] # values[i]]

\* goals[values.index(max(values))]
FirstMax(goal_list, values) == goal_list[Index(values, RMaxSeq(values))]

\* The 'max' branch of select_goal.
SelectMax(G, a, t, state) ==
    CHOOSE s \in
        { IF ~values.ok THEN SelectRaise(values.exc, a)
          ELSE Selected(FirstMax(a.goals, values.vals), a) :
          values \in {GoalValues(G, a.goals, t, state)} } : TRUE

\* The 'softmax' branch of select_goal with a draw in place of the choice of
\* the greatest probability: any goal of positive probability may come out,
\* here the last one.
SelectSoftmaxDraw(G, a, t, state) ==
    CHOOSE s \in
        { IF ~values.ok THEN SelectRaise(values.exc, a)
          ELSE CHOOSE c \in
                  { IF probs = <<>> THEN SelectedNone(a)
                    ELSE Selected(a.goals[CHOOSE i \in 1..Len(probs) :
                                             /\ probs[i] # RZero
                                             /\ \A j \in (i + 1)..Len(probs) :
                                                    probs[j] = RZero], a) :
                    probs \in {Softmax(values.vals, a.temperature)} } : TRUE :
          values \in {GoalValues(G, a.goals, t, state)} } : TRUE

\* The 'softmax' branch of select_goal.
SelectSoftmax(G, a, t, state) ==
    CHOOSE s \in
        { IF ~values.ok THEN SelectRaise(values.exc, a)
          ELSE CHOOSE c \in
                  { IF probs = <<>> THEN SelectedNone(a)
                    ELSE Selected(FirstMax(a.goals, probs), a) :
                    probs \in {Softmax(values.vals, a.temperature)} } : TRUE :
          values \in {GoalValues(G, a.goals, t, state)} } : TRUE

\* payoff_g1 of nash_arbitrate: rows are g1's action, columns g2's.
PayoffG1(ev_g1, ev_g2) == << <<RZero, RZero>>, <<ev_g1, RAdd(ev_g1, ev_g2)>> >>

\* payoff_g2 of nash_arbitrate.
PayoffG2(ev_g1, ev_g2) == << <<RZero, ev_g2>>, <<RZero, RAdd(ev_g2, ev_g1)>> >>

\* A response that engages when engaging pays less than not engaging.
BestResponseInverted(util_engage, util_not_engage, p_old) ==
    IF RLt(util_engage, util_not_engage) THEN ROne
    ELSE IF RLt(util_not_engage, util_engage) THEN RZero
    ELSE p_old

\* The best response of a player whose engagement probability was p_old.
BestResponse(util_engage, util_not_engage, p_old) ==
    IF RLt(util_not_engage, util_engage) THEN ROne
    ELSE IF RLt(util_engage, util_not_engage) THEN RZero
    ELSE p_old

\* One pass of the loop body of nash_arbitrate up to the convergence check:
\* the best responses <<p1_new, p2_new>> to <<p1, p2>>.
NashStep(ev_g1, ev_g2, p1, p2) ==
    CHOOSE new \in
        { << BestResponse(
               RAdd(RMul(p2, payoff_g1[2][2]), RMul(RSub(ROne, p2), payoff_g1[2][1])),
               RAdd(RMul(p2, payoff_g1[1][2]), RMul(RSub(ROne, p2), payoff_g1[1][1])),
               p1),
             BestResponse(
               RAdd(RMul(p1, payoff_g2[2][2]), RMul(RSub(ROne, p1), payoff_g2[1][2])),
               RAdd(RMul(p1, payoff_g2[2][1]), RMul(RSub(ROne, p1), payoff_g2[1][1])),
               p2) >> :
          payoff_g1 \in {PayoffG1(ev_g1, ev_g2)},
          payoff_g2 \in {PayoffG2(ev_g1, ev_g2)} } : TRUE

\* A convergence check that compares each probability with the other goal's
\* best response.
ConvergedCrossed(p1, p2, p1_new, p2_new) ==
    /\ RLt(RAbs(RSub(p1, p2_new)), <<1, 10000>>)
    /\ RLt(RAbs(RSub(p2, p1_new)), <<1, 10000>>)

\* The convergence check of nash_arbitrate.
Converged(p1, p2, p1_new, p2_new) ==
    /\ RLt(RAbs(RSub(p1, p1_new)), <<1, 10000>>)
    /\ RLt(RAbs(RSub(p2, p2_new)), <<1, 10000>>)

\* The loop of nash_arbitrate with k iterations left, entered with the
\* probabilities p = <<p1, p2>> after the iterations that were entered with
\* the probabilities of the list entered: the probabilities p with which the
\* loop ends, the probabilities with which each of its iterations was
\* entered, and whether it left through the break.  The break leaves before
\* the assignment p1, p2 = p1_new, p2_new.
RECURSIVE NashIterate(_, _, _, _, _)
NashIterate(ev_g1, ev_g2, p, k, entered) ==
    IF k <= 0 THEN [p |-> p, entered |-> entered, converged |-> FALSE]
    ELSE CHOOSE r \in
        { IF Converged(p[1], p[2], new[1], new[2])
          THEN [p |-> p, entered |-> Append(entered, p), converged |-> TRUE]
          ELSE NashIterate(ev_g1, ev_g2, new, k - 1, Append(entered, p)) :
          new \in {NashStep(ev_g1, ev_g2, p[1], p[2])} } : TRUE

\* The probabilities with which the loop of nash_arbitrate ends when it is
\* entered with p and has k iterations left.
NashLoop(ev_g1, ev_g2, p, k) == NashIterate(ev_g1, ev_g2, p, k, <<>>).p

\* "p1, p2 = 0.5, 0.5" and the loop "for _ in range(self.nash_iterations)".
NashRun(ev_g1, ev_g2, nash_iterations) ==
    NashIterate(ev_g1, ev_g2, << <<1, 2>>, <<1, 2>> >>, nash_iterations, <<>>)

\* A choice that breaks a tie of the probabilities with > in place of >=.
NashChoiceStrict(p, ev_g1, ev_g2) ==
    IF RLt(p[2], p[1]) THEN 1
    ELSE IF RLt(p[1], p[2]) THEN 2
    ELSE IF RLt(ev_g2, ev_g1) THEN 1 ELSE 2

\* The choice that ends nash_arbitrate: 1 for g1, 2 for g2.
NashChoice(p, ev_g1, ev_g2) ==
    IF RLt(p[2], p[1]) THEN 1
    ELSE IF RLt(p[1], p[2]) THEN 2
    ELSE IF RLe(ev_g2, ev_g1) THEN 1 ELSE 2

\* nash_arbitrate once the two effective values are known.
NashWinner(ev_g1, ev_g2, nash_iterations) ==
    CHOOSE w \in
        { NashChoice(p, ev_g1, ev_g2) :
          p \in {NashRun(ev_g1, ev_g2, nash_iterations).p} } : TRUE

\* nash_arbitrate after its length check, with g1, g2 = self.goals[0],
\* self.goals[1]: g1 is evaluated first and, if that returns, g2.
NashPair(G, a, t, state) ==
    CHOOSE s \in
        { IF ~ev_g1.ok THEN SelectRaise(ev_g1.exc, a)
          ELSE CHOOSE c \in
                  { IF ~ev_g2.ok THEN SelectRaise(ev_g2.exc, a)
                    ELSE Selected(a.goals[NashWinner(ev_g1.v, ev_g2.v,
                                                     a.nash_iterations)], a) :
                    ev_g2 \in {EffectiveValue(G, a.goals[2], t, state, 1)} } : TRUE :
          ev_g1 \in {EffectiveValue(G, a.goals[1], t, state, 1)} } : TRUE

\* nash_arbitrate with a length check that only rejects fewer than two goals.
NashArbitrateAtLeastTwo(G, a, t, state) ==
    IF Len(a.goals) < 2
    THEN SelectRaise("ValueError", a)
    ELSE NashPair(G, a, t, state)

\* GoalArbitrator.nash_arbitrate
NashArbitrate(G, a, t, state) ==
    IF Len(a.goals) # 2
    THEN SelectRaise("ValueError", a)
    ELSE NashPair(G, a, t, state)

\* The 'nash' branch of select_goal.
SelectNash(G, a, t, state) ==
    IF Len(a.goals) # 2
    THEN SelectRaise("ValueError", a)
    ELSE NashArbitrate(G, a, t, state)

\* A score that penalizes a positive slope instead of rewarding it.
LyapunovScorePenalizes(current_val, prev_val, delta_t) ==
    RSub(current_val,
         RMul(ROne, RMax(RZero,
                         IF RLt(RZero, delta_t)
                         THEN RDiv(RSub(current_val, prev_val), delta_t)
                         ELSE RZero)))

\* The score that lyapunov_arbitrate gives a goal: v_dot is 0.0 unless
\* delta_t is above 0.
LyapunovScore(current_val, prev_val, delta_t) ==
    RAdd(current_val,
         RMul(ROne, RMax(RZero,
                         IF RLt(RZero, delta_t)
                         THEN RDiv(RSub(current_val, prev_val), delta_t)
                         ELSE RZero)))

\* self._previous_values.get(name, current_val)
PreviousValue(prev, name, current_val) ==
    IF prev[name] = Absent THEN current_val ELSE prev[name]

\* A loop body that leaves the history as it is.
RecordNothing(prev, name, current_val) == prev

\* self._previous_values[goal.name] = current_val
RecordValue(prev, name, current_val) == [prev EXCEPT ![name] = current_val]

\* The loop of lyapunov_arbitrate over the goals from position i on: the
\* scores collected and the history written so far.  A goal whose evaluation
\* raises ends the loop with the history written for the goals before it.
RECURSIVE LyapunovScan(_, _, _, _, _, _, _)
LyapunovScan(G, a, t, state, i, scores, prev) ==
    IF i > Len(a.goals)
    THEN [ok |-> TRUE, scores |-> scores, prev |-> prev, exc |-> "none"]
    ELSE CHOOSE r \in
        { IF ~cur.ok
          THEN [ok |-> FALSE, scores |-> scores, prev |-> prev, exc |-> cur.exc]
          ELSE CHOOSE c \in
                  { LyapunovScan(G, a, t, state, i + 1, acc[1], acc[2]) :
                    acc \in { << Append(scores,
                                       LyapunovScore(cur.v,
                                                     PreviousValue(prev, a.goals[i], cur.v),
                                                     a.delta_t)),
                                RecordValue(prev, a.goals[i], cur.v) >> } } : TRUE :
          cur \in {EffectiveValue(G, a.goals[i], t, state, 1)} } : TRUE

\* GoalArbitrator.lyapunov_arbitrate: the sort is stable, so among the goals
\* with the greatest score the first in list order is candidates[0].
LyapunovArbitrate(G, a, t, state) ==
    IF a.goals = <<>> THEN SelectedNone(a)
    ELSE CHOOSE s \in
        { IF ~r.ok THEN SelectRaise(r.exc, [a EXCEPT !.previous_values = r.prev])
          ELSE Selected(FirstMax(a.goals, r.scores),
                        [a EXCEPT !.previous_values = r.prev]) :
          r \in {LyapunovScan(G, a, t, state, 1, <<>>, a.previous_values)} } : TRUE

\* A final else branch that rejects the mode.
SelectFallbackRejects(G, a, t, state) == SelectRaise("ValueError", a)

\* The final else branch of select_goal, taken for a mode that is none of
\* 'max', 'softmax', 'nash', 'lyapunov': "Default fallback to max".
SelectFallback(G, a, t, state) == SelectMax(G, a, t, state)

\* A select_goal that looks at the mode before it looks for an empty list.
SelectGoalModeFirst(G, a, t, state) ==
    IF a.mode = "nash" THEN SelectNash(G, a, t, state)
    ELSE IF a.goals = <<>> THEN SelectedNone(a)
    ELSE CASE a.mode = "max" -> SelectMax(G, a, t, state)
           [] a.mode = "softmax" -> SelectSoftmax(G, a, t, state)
           [] a.mode = "lyapunov" -> LyapunovArbitrate(G, a, t, state)
           [] OTHER -> SelectFallback(G, a, t, state)

\* GoalArbitrator.select_goal
SelectGoal(G, a, t, state) ==
    IF a.goals = <<>> THEN SelectedNone(a)
    ELSE CASE a.mode = "max" -> SelectMax(G, a, t, state)
           [] a.mode = "softmax" -> SelectSoftmax(G, a, t, state)
           [] a.mode = "nash" -> SelectNash(G, a, t, state)
           [] a.mode = "lyapunov" -> LyapunovArbitrate(G, a, t, state)
           [] OTHER -> SelectFallback(G, a, t, state)

\* What select returns for a map of a size other than 0 and 2: a dictionary,
\* here the list of its <<goal, probability>> items in insertion order.
SelectedDict(d, a) == [ok |-> TRUE, goal |-> "dict", dict |-> d, exc |-> "none", arb |-> a]

\* The keys and the values of a dictionary given as the list of its items.
DictKeys(items) == [i \in DOMAIN items |-> items[i][1]]

DictValues(items) == [i \in DOMAIN items |-> items[i][2]]

\* The last lines of select: the softmax of the values, divided by its sum,
\* or uniform if that sum is 0.
SelectDistribution(values, temperature) ==
    CHOOSE d \in
        { CHOOSE n \in
              { IF total_prob = RZero
                THEN [i \in DOMAIN probs |-> Rat(1, Len(probs))]
                ELSE [i \in DOMAIN probs |-> RDiv(probs[i], total_prob)] :
                total_prob \in {RSum(probs)} } : TRUE :
          probs \in {Softmax(values, temperature)} } : TRUE

\* A select that sends every dictionary of at most two entries to
\* nash_arbitrate.
SelectUpToTwo(G, a, expected_values) ==
    IF expected_values = <<>> THEN SelectedNone(a)
    ELSE IF Len(expected_values) <= 2
    THEN NashArbitrate(G, [a EXCEPT !.goals = DictKeys(expected_values)],
                       RZero, EmptyState)
    ELSE CHOOSE r \in
        { SelectedDict([i \in DOMAIN expected_values |->
                           <<expected_values[i][1], probs[i]>>], a) :
          probs \in {SelectDistribution(DictValues(expected_values),
                                        a.temperature)} } : TRUE

\* GoalArbitrator.select on the dictionary with the items expected_values:
\* for two entries it replaces self.goals by the keys and runs nash_arbitrate
\* at t = 0.0 on the state {}.
Select(G, a, expected_values) ==
    IF expected_values = <<>> THEN SelectedNone(a)
    ELSE IF Len(expected_values) = 2
    THEN NashArbitrate(G, [a EXCEPT !.goals = DictKeys(expected_values)],
                       RZero, EmptyState)
    ELSE CHOOSE r \in
        { SelectedDict([i \in DOMAIN expected_values |->
                           <<expected_values[i][1], probs[i]>>], a) :
          probs \in {SelectDistribution(DictValues(expected_values),
                                        a.temperature)} } : TRUE

\* --------------------------------------------------- calls and their results

OutValue(v) == [kind |-> "value", v |-> v, exc |-> "none", goal |-> "none", list |-> <<>>]

OutRaise(e) == [kind |-> "raise", v |-> RZero, exc |-> e, goal |-> "none", list |-> <<>>]

OutGoal(g) == [kind |-> "goal", v |-> RZero, exc |-> "none", goal |-> g, list |-> <<>>]

OutNone == [kind |-> "None", v |-> RZero, exc |-> "none", goal |-> "none", list |-> <<>>]

OutList(l) == [kind |-> "list", v |-> RZero, exc |-> "none", goal |-> "none", list |-> l]

OutDict(d) == [kind |-> "dict", v |-> RZero, exc |-> "none", goal |-> "none", list |-> d]

\* What a caller sees of an evaluation.
OutOf(r) == IF r.ok THEN OutValue(r.v) ELSE OutRaise(r.exc)

\* What a caller sees of an arbitration.
OutOfSelect(r) ==
    IF ~r.ok THEN OutRaise(r.exc)
    ELSE IF r.goal = "None" THEN OutNone
    ELSE IF r.goal = "dict" THEN OutDict(r.dict)
    ELSE OutGoal(r.goal)

\* The most recent call: its operation, its arguments, what it returned or
\* raised, and for a call on the arbitrator the _previous_values that the call
\* found (an empty history for every other call).
Call(op, g, t, state, values, out) ==
    [op |-> op, goal |-> g, t |-> t, state |-> state, values |-> values, out |-> out,
     history |-> NoHistory]

\* A call on an arbitrator that it found with the history h.
CallOn(h, op, t, state, out) ==
    [Call(op, "none", t, state, <<>>, out) EXCEPT !.history = h]

NoCall == Call("none", "none", RZero, EmptyState, <<>>, OutNone)

\* ------------------------------------------------------- goal evaluation runs

\* The goals that the runs construct: the fixture of the tests, a goal with
\* all three traits, and goals whose urgency or utility function raises.
GoalKinds ==
    { Goal(linear_urgency, curiosity_utility, <<>>, {}),
      Goal(linear_urgency, safety_utility, <<>>,
           {URGENCY_SENSITIVE, RISK_AVERSE, EXPLORATORY}),
      Goal(Raises, curiosity_utility, <<>>, {}),
      Goal(linear_urgency, Raises, <<>>, {}) }

RECURSIVE SumLen(_, _)
SumLen(G, S) ==
    IF S = {} THEN 0
    ELSE LET n == CHOOSE n \in S : TRUE
         IN  Len(G[n].dependencies) + SumLen(G, S \ {n})

InitGoal ==
    /\ goals \in [Names -> GoalKinds]
    /\ arb = DefaultArbitrator
    /\ ret = NoCall
    /\ nodes = NoNodes
    /\ manager = NoManager
    /\ cstate = NoCognitiveState
    /\ stack = NoTraitStack

\* g.dependencies.append(d): any goal, g itself included, can be appended,
\* so the dependency graph may hold cycles.
AppendDependency(g, d) ==
    /\ SumLen(goals, Names) < MaxEdges
    /\ goals' = [goals EXCEPT ![g].dependencies = Append(@, d)]
    /\ ret' = NoCall
    /\ UNCHANGED <<arb, others>>

\* An effective_value that uses up the traits of the goal it evaluates.
EffectiveValueCallConsuming(g, t, state) ==
    /\ ret' = Call("effective_value", g, t, state, <<>>,
                   OutOf(EffectiveValue(goals, g, t, state, 1)))
    /\ goals' = [goals EXCEPT ![g].traits = {}]
    /\ UNCHANGED <<arb, others>>

\* A caller's g.effective_value(t, state).
EffectiveValueCall(g, t, state) ==
    /\ ret' = Call("effective_value", g, t, state, <<>>,
                   OutOf(EffectiveValue(goals, g, t, state, 1)))
    /\ UNCHANGED <<goals, arb, others>>

NextGoal ==
    \/ \E g \in Names, d \in Names : AppendDependency(g, d)
    \/ \E g \in Names, t \in Times, state \in States : EffectiveValueCall(g, t, state)

SpecGoal == InitGoal /\ [][NextGoal]_vars

\* ------------------------------------------------------------ arbitration runs

\* 'greedy' stands for every string that names no arbitration mode.
Modes == {"max", "softmax", "nash", "lyapunov", "greedy"}

KnownModes == {"max", "softmax", "nash", "lyapunov"}

\* The temperatures that the runs pass, all above 0; 1.0 is the default.
Temperatures == {ROne, <<2, 1>>}

\* The goal lists that the runs pass: a goal may occur more than once.
GoalLists == UNION {[1..n -> Names] : n \in 0..MaxGoals}

\* The state that the arbitration runs pass: {}, as in the tests.
ArbStates == {EmptyState}

\* The times that the arbitration runs pass: those of the evaluation runs and
\* t = 1, where linear_urgency is 0 and A and C are both worth 0.
ArbTimes == Times \cup {ROne}

\* The goals of the arbitration runs, all leaves without traits.  A is worth
\* 3 at t = -0.5 and 1 at t = 0.5, B is always worth 3 (a tie with A at
\* t = -0.5, with A first or second in the list), C is worth -18 or -6, far
\* enough below the others for its exponential to underflow.
PlainHeap ==
    [n \in Names |->
        CASE n = "A" -> Goal(linear_urgency, Const(<<2, 1>>), <<>>, {})
          [] n = "B" -> Goal(Const(ROne), Const(<<3, 1>>), <<>>, {})
          [] OTHER -> Goal(linear_urgency, Const(<<-12, 1>>), <<>>, {})]

\* The same goals with a C whose urgency function raises.
FaultyHeap == [PlainHeap EXCEPT !["C"] = Goal(Raises, Const(<<2, 1>>), <<>>, {})]

\* Goals whose values nearly tie, as 1e-20 and 2e-20 do for doubles: B is
\* worth twice as much as A, and more than A by less than the rounding
\* distance of math.exp at any temperature of the runs; C is worth so much
\* less that its exponential underflows at any time and temperature of the runs.
CloseHeap ==
    [n \in Names |->
        CASE n = "A" -> Goal(Const(ROne), Const(<<1, Pow2(ExpPrecision + 2)>>), <<>>, {})
          [] n = "B" -> Goal(Const(ROne), Const(<<2, Pow2(ExpPrecision + 2)>>), <<>>, {})
          [] OTHER -> Goal(linear_urgency, Const(<<-4 * (ExpUnderflow + 1), 1>>), <<>>, {})]

InitArb ==
    /\ goals \in {PlainHeap, FaultyHeap, CloseHeap}
    /\ arb = DefaultArbitrator
    /\ ret = NoCall
    /\ nodes = NoNodes
    /\ manager = NoManager
    /\ cstate = NoCognitiveState
    /\ stack = NoTraitStack

\* The values of delta_t that the runs pass: the default 0.1, and 0, for
\* which lyapunov_arbitrate takes every derivative as 0.0.
DeltaTs == {<<1, 10>>, RZero}

\* arb = GoalArbitrator(goal_list, mode=mode, temperature=temperature,
\*                      delta_t=delta_t)
NewArbitrator(goal_list, mode, temperature, delta_t) ==
    /\ arb' = GoalArbitrator(goal_list, mode, temperature,
                             DefaultNashIterations, delta_t)
    /\ ret' = NoCall
    /\ UNCHANGED <<goals, others>>

\* A caller's arb.select_goal(t, state).
SelectGoalCall(t, state) ==
    \E r \in {SelectGoal(goals, arb, t, state)} :
        /\ ret' = CallOn(arb.previous_values, "select_goal", t, state, OutOfSelect(r))
        /\ arb' = r.arb
        /\ UNCHANGED <<goals, others>>

\* A caller's arb.nash_arbitrate(t, state).
NashArbitrateCall(t, state) ==
    \E r \in {NashArbitrate(goals, arb, t, state)} :
        /\ ret' = CallOn(arb.previous_values, "nash_arbitrate", t, state, OutOfSelect(r))
        /\ arb' = r.arb
        /\ UNCHANGED <<goals, others>>

NextArb ==
    \/ \E goal_list \in GoalLists, mode \in Modes :
         \E temperature \in (IF mode = "softmax" THEN Temperatures ELSE {ROne}),
            delta_t \in (IF mode = "lyapunov" THEN DeltaTs ELSE {<<1, 10>>}) :
            NewArbitrator(goal_list, mode, temperature, delta_t)
    \/ \E t \in ArbTimes, state \in ArbStates : SelectGoalCall(t, state)
    \/ \E t \in ArbTimes, state \in ArbStates : NashArbitrateCall(t, state)

SpecArb == InitArb /\ [][NextArb]_vars

\* ------------------------------------------------------ nash arbitration runs

\* The greatest absolute value of the goals of these runs.
MaxNashValue == 3

\* The effective values of the goals of these runs: negative, zero and
\* positive, so that a pair can have ev_g1 + ev_g2, ev_g1 + 0.5 * ev_g2 and
\* ev_g2 + 0.5 * ev_g1 of any sign, zero included.
NashValues == { <<n, 1>> : n \in (-MaxNashValue)..MaxNashValue }

\* Goals without dependencies and traits: A and B are worth any of the values
\* at every time and state, C is worth 0.5.
SignedHeaps ==
    { [n \in Names |->
          CASE n = "A" -> Goal(Const(ROne), Const(a), <<>>, {})
            [] n = "B" -> Goal(Const(ROne), Const(b), <<>>, {})
            [] OTHER -> Goal(Const(ROne), Const(<<1, 2>>), <<>>, {})] :
      a \in NashValues, b \in NashValues }

\* The iteration budgets that the runs pass; 20 is the default.
NashBudgets == {0, 1, 2, DefaultNashIterations}

\* The goal lists that these runs construct arbitrators with.
NashGoalLists == [1..2 -> Names]

InitNash ==
    /\ goals \in SignedHeaps
    /\ arb = DefaultArbitrator
    /\ ret = NoCall
    /\ nodes = NoNodes
    /\ manager = NoManager
    /\ cstate = NoCognitiveState
    /\ stack = NoTraitStack

\* arb = GoalArbitrator(goal_list, mode=mode, nash_iterations=nash_iterations)
NewNashArbitrator(goal_list, mode, nash_iterations) ==
    /\ arb' = GoalArbitrator(goal_list, mode, ROne, nash_iterations, <<1, 10>>)
    /\ ret' = NoCall
    /\ UNCHANGED <<goals, others>>

NextNash ==
    \/ \E goal_list \in NashGoalLists, mode \in {"nash", "max"} :
         \E nash_iterations \in (IF mode = "nash" THEN NashBudgets
                                  ELSE {DefaultNashIterations}) :
            NewNashArbitrator(goal_list, mode, nash_iterations)
    \/ \E t \in ArbTimes, state \in ArbStates : SelectGoalCall(t, state)
    \/ \E t \in ArbTimes, state \in ArbStates : NashArbitrateCall(t, state)

SpecNash == InitNash /\ [][NextNash]_vars

\* ----------------------------------------------------------------- select runs

\* The expected values that the runs pass.
ExpectedValues == {ROne, <<3, 1>>}

\* The dictionaries that the runs pass to select, as lists of items: the
\* keys of a dictionary are distinct.
ValueMaps ==
    UNION { { m \in [1..n -> Names \X ExpectedValues] :
                \A i, j \in 1..n : m[i][1] = m[j][1] => i = j } :
            n \in 0..MaxGoals }

\* The modes of the arbitrators of these runs, which keep no history.
StatelessModes == {"max", "softmax", "nash"}

\* The goal lists that these runs construct arbitrators with.
SelectGoalLists == {l \in GoalLists : Len(l) <= 2}

InitSelect ==
    /\ goals \in {PlainHeap, FaultyHeap}
    /\ arb = DefaultArbitrator
    /\ ret = NoCall
    /\ nodes = NoNodes
    /\ manager = NoManager
    /\ cstate = NoCognitiveState
    /\ stack = NoTraitStack

\* A caller's arb.select(expected_values).
SelectCall(expected_values) ==
    \E r \in {Select(goals, arb, expected_values)} :
        /\ ret' = [CallOn(arb.previous_values, "select", RZero, EmptyState, OutOfSelect(r))
                      EXCEPT !.values = expected_values]
        /\ arb' = r.arb
        /\ UNCHANGED <<goals, others>>

NextSelect ==
    \/ \E goal_list \in SelectGoalLists, mode \in StatelessModes :
         NewArbitrator(goal_list, mode, ROne, <<1, 10>>)
    \/ \E expected_values \in ValueMaps : SelectCall(expected_values)
    \/ \E t \in Times, state \in ArbStates : SelectGoalCall(t, state)

SpecSelect == InitSelect /\ [][NextSelect]_vars

\* ---------------------------------------------------------------- softmax runs

\* The values that the runs pass to softmax: integers, close enough for
\* distinct exponentials and far enough apart for an underflow.
SoftmaxValues == {<<-18, 1>>, <<-6, 1>>, <<1, 1>>, <<3, 1>>}

ValueLists == UNION {[1..n -> SoftmaxValues] : n \in 0..MaxGoals}

\* A caller's arb.softmax(values).
SoftmaxCall(values) ==
    /\ ret' = Call("softmax", "none", RZero, EmptyState, values,
                   OutList(Softmax(values, arb.temperature)))
    /\ UNCHANGED <<goals, arb, others>>

NextSoftmax ==
    \/ \E temperature \in Temperatures : NewArbitrator(<<>>, "softmax", temperature, <<1, 10>>)
    \/ \E values \in ValueLists : SoftmaxCall(values)

SpecSoftmax == InitArb /\ [][NextSoftmax]_vars

\* ------------------------------------------ core/RecursiveGoalManager.py

\* min(a, b)
RMin(a, b) == CHOOSE r \in { IF RLt(y, x) THEN y ELSE x : x \in {a}, y \in {b} } : TRUE

\* The names of the goals of the hierarchy.
NodeNames == {"root", "eat", "bond", "feast"}

\* The classes of the goals: Goal, whose evaluate raises NotImplementedError,
\* and its subclasses EatFoodGoal and SocialBondingGoal.
NodeKind(n) ==
    CASE n = "root" -> "Goal"
      [] n = "bond" -> "SocialBondingGoal"
      [] OTHER -> "EatFoodGoal"

\* Goal.__init__: a goal without subgoals.
Node(kind) == [kind |-> kind, subgoals |-> <<>>]

\* The keys of the state dictionary that the goals of the hierarchy read.
ManagerKeys == {"hunger", "affection", "food_aversion", "social_anxiety"}

\* The states that the runs pass to step: the empty dictionary, a state of
\* hunger, and a state of affection with an aversion to food.
ManagerStates ==
    { [k \in ManagerKeys |-> Absent],
      [k \in ManagerKeys |-> IF k = "hunger" THEN ROne ELSE Absent],
      [k \in ManagerKeys |->
          CASE k = "affection" -> ROne
            [] k = "food_aversion" -> ROne
            [] k = "social_anxiety" -> <<1, 2>>
            [] OTHER -> Absent] }

\* EatFoodGoal.commitment_curve: min(1.0, 0.1 + 0.9 * (t / 10.0))
EatCommitmentCurve(t) ==
    RMin(ROne, RAdd(<<1, 10>>, RMul(<<9, 10>>, RDiv(t, <<10, 1>>))))

\* EatFoodGoal.evaluate
EatFoodEvaluate(t, state) ==
    RMul(RMul(StateGet(state, "hunger", <<1, 2>>),
              RAdd(ROne, RNeg(StateGet(state, "food_aversion", RZero)))),
         EatCommitmentCurve(t))

\* SocialBondingGoal.evaluate, whose commitment_curve is the constant 1.0.
SocialBondingEvaluate(t, state) ==
    RMul(RMul(StateGet(state, "affection", <<1, 2>>),
              RAdd(ROne, RNeg(StateGet(state, "social_anxiety", RZero)))),
         ROne)

\* goal.evaluate(t, state) for a goal of the class kind.
Evaluate(kind, t, state) ==
    CASE kind = "EatFoodGoal" -> Ok(EatFoodEvaluate(t, state))
      [] kind = "SocialBondingGoal" -> Ok(SocialBondingEvaluate(t, state))
      [] OTHER -> Raise("NotImplementedError")

\* RecursiveGoalManager.__init__ on an arbitrator GoalArbitrator(mode,
\* temperature) of RecursiveGoalManager.py.
RecursiveGoalManager(root_goal, mode, temperature) ==
    [root_goal |-> root_goal, mode |-> mode, temperature |-> temperature, t |-> RZero]

\* The 'softmax' branch of the select of RecursiveGoalManager.py, on the
\* items of expected_values.
ManagerSoftmax(items, temperature) ==
    CHOOSE d \in
        { CHOOSE n \in
            { IF total = RZero
              THEN [i \in DOMAIN items |-> <<items[i][1], Rat(1, Len(items))>>]
              ELSE [i \in DOMAIN items |-> <<items[i][1], RDiv(exp_vals[i], total)>>] :
              total \in {RSum(exp_vals)} } : TRUE :
          exp_vals \in {[i \in DOMAIN items |->
                            Exp(Exponent(items[i][2], RMaxSeq(DictValues(items)),
                                         temperature))]} } : TRUE

\* The select of RecursiveGoalManager.py on the items of expected_values:
\* {} for an empty dictionary, the first key of the greatest value in max
\* mode, a distribution in softmax mode.
ManagerSelect(m, items) ==
    IF items = <<>> THEN [kind |-> "dict", goal |-> "none", dict |-> <<>>]
    ELSE IF m.mode = "max"
    THEN [kind |-> "goal", goal |-> FirstMax(DictKeys(items), DictValues(items)),
          dict |-> <<>>]
    ELSE [kind |-> "dict", goal |-> "none", dict |-> ManagerSoftmax(items, m.temperature)]

\* What an evaluation of a node returns or raises, with the calls that it
\* made: selects lists the arbitrator's select calls as pairs of the node and
\* the items of expected_values, visited lists the nodes that
\* _evaluate_recursive was called on.
Evaluated(r, selects, visited) ==
    [ok |-> r.ok, v |-> r.v, exc |-> r.exc, selects |-> selects, visited |-> visited]

\* {sg: sg.evaluate(self.t, state) for sg in goal.subgoals}
RECURSIVE SubgoalValues(_, _, _, _, _)
SubgoalValues(N, m, subgoals, i, state) ==
    IF i > Len(subgoals) THEN [ok |-> TRUE, items |-> <<>>, exc |-> "none"]
    ELSE CHOOSE r \in
        { IF ~e.ok THEN [ok |-> FALSE, items |-> <<>>, exc |-> e.exc]
          ELSE CHOOSE s \in
                  { IF ~rest.ok THEN rest
                    ELSE [rest EXCEPT !.items = <<<<subgoals[i], e.v>>>> \o @] :
                    rest \in {SubgoalValues(N, m, subgoals, i + 1, state)} } : TRUE :
          e \in {Evaluate(N[subgoals[i]].kind, m.t, state)} } : TRUE

\* An evaluation that takes a child's own value for the value of its subtree.
EvaluateFlat(N, m, goal, state) ==
    IF N[goal].subgoals = <<>>
    THEN Evaluated(Evaluate(N[goal].kind, m.t, state), <<>>, <<goal>>)
    ELSE CHOOSE r \in
        { IF ~expected_values.ok
          THEN Evaluated(Raise(expected_values.exc), <<>>, <<goal>>)
          ELSE CHOOSE s \in
                  { IF selected.kind = "dict"
                    THEN Evaluated(Ok(RSum([i \in DOMAIN selected.dict |->
                                               RMul(selected.dict[i][2],
                                                    expected_values.items[i][2])])),
                                   <<<<goal, expected_values.items>>>>,
                                   <<goal>> \o DictKeys(selected.dict))
                    ELSE Evaluated(Evaluate(N[selected.goal].kind, m.t, state),
                                   <<<<goal, expected_values.items>>>>,
                                   <<goal, selected.goal>>) :
                    selected \in {ManagerSelect(m, expected_values.items)} } : TRUE :
          expected_values \in {SubgoalValues(N, m, N[goal].subgoals, 1, state)} } : TRUE

RECURSIVE EvaluateRecursive(_, _, _, _)
RECURSIVE WeightedSum(_, _, _, _, _, _)

\* The loop of _evaluate_recursive over selected.items(), from the item at
\* position i on, with total_value and the calls made so far in acc.
WeightedSum(N, m, selected, i, state, acc) ==
    IF i > Len(selected) THEN acc
    ELSE CHOOSE r \in
        { IF ~subval.ok
          THEN Evaluated(subval, acc.selects \o subval.selects,
                         acc.visited \o subval.visited)
          ELSE WeightedSum(N, m, selected, i + 1, state,
                   Evaluated(Ok(RAdd(acc.v, RMul(selected[i][2], subval.v))),
                             acc.selects \o subval.selects,
                             acc.visited \o subval.visited)) :
          subval \in {EvaluateRecursive(N, m, selected[i][1], state)} } : TRUE

\* RecursiveGoalManager._evaluate_recursive on a hierarchy that is a tree.
EvaluateRecursive(N, m, goal, state) ==
    IF N[goal].subgoals = <<>>
    THEN Evaluated(Evaluate(N[goal].kind, m.t, state), <<>>, <<goal>>)
    ELSE CHOOSE r \in
        { IF ~expected_values.ok
          THEN Evaluated(Raise(expected_values.exc), <<>>, <<goal>>)
          ELSE CHOOSE s \in
                  { IF selected.kind = "dict"
                    THEN WeightedSum(N, m, selected.dict, 1, state,
                             Evaluated(Ok(RZero), <<<<goal, expected_values.items>>>>,
                                       <<goal>>))
                    ELSE CHOOSE c \in
                            { Evaluated(sub, <<<<goal, expected_values.items>>>> \o sub.selects,
                                        <<goal>> \o sub.visited) :
                              sub \in {EvaluateRecursive(N, m, selected.goal, state)} } : TRUE :
                    selected \in {ManagerSelect(m, expected_values.items)} } : TRUE :
          expected_values \in {SubgoalValues(N, m, N[goal].subgoals, 1, state)} } : TRUE

\* ------------------------------------------------------ recursive manager runs

\* The greatest time that the runs step to.
MaxTime == 20

\* The time increments that the runs pass to step.
Dts == {RZero, <<10, 1>>}

\* The modes that the runs construct the arbitrator of RecursiveGoalManager.py
\* with: its two modes, and one that it rejects.
ManagerModes == {"max", "softmax", "nash"}

\* The temperature of the arbitrators of these runs.
ManagerTemperature == <<1, 10>>

\* The nodes below n in the hierarchy, n included.
RECURSIVE Subtree(_, _)
Subtree(N, n) ==
    {n} \cup UNION { Subtree(N, N[n].subgoals[i]) : i \in DOMAIN N[n].subgoals }

HasParent(N, n) == \E p \in NodeNames : \E i \in DOMAIN N[p].subgoals : N[p].subgoals[i] = n

\* The most recent call of the manager runs.
ManagerCall(op, dt, state, r) ==
    [op |-> op, dt |-> dt, state |-> state, out |-> OutOf(r),
     selects |-> r.selects, visited |-> r.visited]

NoManagerCall == ManagerCall("none", RZero, EmptyState, Evaluated(Ok(RZero), <<>>, <<>>))

InitManager ==
    /\ goals = [n \in {} |-> n]
    /\ arb = DefaultArbitrator
    /\ ret = NoManagerCall
    /\ nodes = [n \in NodeNames |-> Node(NodeKind(n))]
    /\ manager = NoManager
    /\ cstate = NoCognitiveState
    /\ stack = NoTraitStack

\* manager = RecursiveGoalManager(root_goal, GoalArbitrator(mode, temperature)),
\* where the constructor of the arbitrator raises ValueError for a mode
\* other than 'max' and 'softmax'.
NewManager(root_goal, mode, temperature) ==
    /\ IF mode \in {"max", "softmax"}
       THEN /\ manager' = RecursiveGoalManager(root_goal, mode, temperature)
            /\ ret' = NoManagerCall
       ELSE /\ ret' = ManagerCall("GoalArbitrator", RZero, EmptyState,
                                  Evaluated(Raise("ValueError"), <<>>, <<>>))
            /\ UNCHANGED manager
    /\ UNCHANGED <<stack, goals, arb, nodes, cstate>>

\* manager.inject_goal(goal, parent), with parent = "None" for the default;
\* the runs inject a goal that has no parent yet under a node that is not
\* below it, so that the hierarchy stays a tree.
InjectGoal(goal, parent) ==
    /\ manager # NoManager
    /\ \E target \in {IF parent = "None" THEN manager.root_goal ELSE parent} :
          /\ ~HasParent(nodes, goal)
          /\ target \notin Subtree(nodes, goal)
          /\ nodes' = [nodes EXCEPT ![target].subgoals = Append(@, goal)]
    /\ ret' = NoManagerCall
    /\ UNCHANGED <<stack, goals, arb, manager, cstate>>

\* manager.step(dt, state): the time advances before the evaluation, whether
\* the evaluation returns or raises.
Step(dt, state) ==
    /\ manager # NoManager
    /\ RLe(RAdd(manager.t, dt), <<MaxTime, 1>>)
    /\ \E m \in {[manager EXCEPT !.t = RAdd(@, dt)]} :
          /\ manager' = m
          /\ ret' = ManagerCall("step", dt, state,
                                EvaluateRecursive(nodes, m, m.root_goal, state))
    /\ UNCHANGED <<stack, goals, arb, nodes, cstate>>

\* manager.reset()
Reset ==
    /\ manager # NoManager
    /\ manager' = [manager EXCEPT !.t = RZero]
    /\ ret' = NoManagerCall
    /\ UNCHANGED <<stack, goals, arb, nodes, cstate>>

NextManager ==
    \/ \E root_goal \in NodeNames, mode \in ManagerModes :
         NewManager(root_goal, mode, ManagerTemperature)
    \/ \E goal \in NodeNames, parent \in NodeNames \cup {"None"} : InjectGoal(goal, parent)
    \/ \E dt \in Dts, state \in ManagerStates : Step(dt, state)
    \/ Reset

SpecManager == InitManager /\ [][NextManager]_vars

\* ------------------------------------------------------------ core/state.py

\* The number of snapshots that the runs take.
MaxSnapshots == 2

\* The keys and the values that the runs write.
CogKeys == {"x", "y"}

CogValues == {10, 20}

\* The dictionaries over these keys and values: a dictionary is a function
\* on the keys that it holds.
Dicts == UNION {[ks -> CogValues] : ks \in SUBSET CogKeys}

\* The identities of the dictionary objects: _state_data and each entry of
\* _history is a reference to an object of the heap.
ObjectIds == 1..(MaxSnapshots + 2)

\* A fresh object: the least identity that the heap does not hold.
NewId(heap) ==
    CHOOSE i \in ObjectIds : i \notin DOMAIN heap /\ \A j \in 1..(i - 1) : j \in DOMAIN heap

\* The heap without the objects that neither _state_data nor _history refers to.
Collect(heap, state_data, history) ==
    [i \in {state_data} \cup {history[k] : k \in DOMAIN history} |-> heap[i]]

\* d[key] = value
DictSet(d, key, value) ==
    [k \in DOMAIN d \cup {key} |-> IF k = key THEN value ELSE d[k]]

\* d.update(data)
DictUpdate(d, data) ==
    [k \in DOMAIN d \cup DOMAIN data |-> IF k \in DOMAIN data THEN data[k] ELSE d[k]]

\* The listener of the runs, which keeps a copy of the state data that it is
\* called with; notified is the copy of its last call.
NotNotified == <<"not notified">>

\* CognitiveState.__init__; taken lists the state data at the moment of each
\* snapshot. The timestamp _last_updated is left out: nothing reads it but
\* last_updated().
CognitiveState ==
    [state_data |-> 1, history |-> <<>>, heap |-> [i \in {1} |-> <<>>],
     listeners |-> <<>>, notified |-> NotNotified, taken |-> <<>>]

\* self._state_data of the CognitiveState c.
StateData(c) == c.heap[c.state_data]

\* CognitiveState._notify_listeners
NotifyListeners(c) ==
    IF c.listeners = <<>> THEN c ELSE [c EXCEPT !.notified = StateData(c)]

\* CognitiveState.get
CogGet(c, key) == IF key \in DOMAIN StateData(c) THEN <<StateData(c)[key]>> ELSE <<>>

\* CognitiveState.set
CogSet(c, key, value) ==
    NotifyListeners([c EXCEPT !.heap[c.state_data] = DictSet(@, key, value)])

\* CognitiveState.update
CogUpdate(c, data) ==
    NotifyListeners([c EXCEPT !.heap[c.state_data] = DictUpdate(@, data)])

\* A snapshot that appends _state_data itself to the history, not a copy.
CogSnapshotAliases(c) ==
    [c EXCEPT !.history = Append(@, c.state_data),
              !.taken = Append(@, StateData(c))]

\* CognitiveState.snapshot: a deep copy of the state data, a new object, is
\* appended to the history.
CogSnapshot(c) ==
    CHOOSE n \in
        { [c EXCEPT !.heap = [i \in DOMAIN c.heap \cup {snap} |->
                                 IF i = snap THEN StateData(c) ELSE c.heap[i]],
                    !.history = Append(@, snap),
                    !.taken = Append(@, StateData(c))] :
          snap \in {NewId(c.heap)} } : TRUE

\* self._history[index]: the position that a Python index stands for, or 0 if
\* it is out of range.
ListPosition(len, index) ==
    IF index < 0
    THEN (IF len + index >= 0 THEN len + index + 1 ELSE 0)
    ELSE (IF index < len THEN index + 1 ELSE 0)

\* CognitiveState.rollback, for an index in range: _state_data becomes a
\* deep copy of the snapshot, a new object, and the listeners are notified.
CogRollback(c, index) ==
    CHOOSE n \in
        { NotifyListeners(
              [c EXCEPT !.state_data = fresh,
                        !.heap = Collect([i \in DOMAIN c.heap \cup {fresh} |->
                                             IF i = fresh
                                             THEN c.heap[c.history[ListPosition(Len(c.history), index)]]
                                             ELSE c.heap[i]],
                                         fresh, c.history)]) :
          fresh \in {NewId(c.heap)} } : TRUE

\* ------------------------------------------------------ cognitive state runs

\* The most recent call on the CognitiveState: its operation, its argument,
\* its outcome, and for a rollback the state data that it found.
CogCall(op, arg, out, before) == [op |-> op, arg |-> arg, out |-> out, before |-> before]

\* The dictionaries that the runs pass to update.
UpdateData == {d \in Dicts : d # <<>>}

\* The indices that the runs pass to rollback: the default -1, and 0.
RollbackIndices == {-1, 0}

InitCog ==
    /\ goals = [n \in {} |-> n]
    /\ arb = DefaultArbitrator
    /\ nodes = NoNodes
    /\ manager = NoManager
    /\ cstate = CognitiveState
    /\ stack = NoTraitStack
    /\ ret = CogCall("CognitiveState", <<>>, "None", <<>>)

\* state.get(key)
GetCall(key) ==
    /\ ret' = CogCall("get", <<key>>, CogGet(cstate, key), <<>>)
    /\ UNCHANGED <<stack, goals, arb, nodes, manager, cstate>>

\* state.set(key, value)
SetCall(key, value) ==
    /\ cstate' = CogSet(cstate, key, value)
    /\ ret' = CogCall("set", <<key, value>>, "None", <<>>)
    /\ UNCHANGED <<stack, goals, arb, nodes, manager>>

\* state.update(data)
UpdateCall(data) ==
    /\ cstate' = CogUpdate(cstate, data)
    /\ ret' = CogCall("update", <<data>>, "None", <<>>)
    /\ UNCHANGED <<stack, goals, arb, nodes, manager>>

\* state.snapshot()
SnapshotCall ==
    /\ Len(cstate.history) < MaxSnapshots
    /\ cstate' = CogSnapshot(cstate)
    /\ ret' = CogCall("snapshot", <<>>, "dict", <<>>)
    /\ UNCHANGED <<stack, goals, arb, nodes, manager>>

\* state.rollback(index): IndexError without a snapshot, and for an index
\* out of range.
RollbackCall(index) ==
    /\ IF cstate.history = <<>> \/ ListPosition(Len(cstate.history), index) = 0
       THEN /\ ret' = CogCall("rollback", <<index>>, "IndexError", StateData(cstate))
            /\ UNCHANGED cstate
       ELSE /\ cstate' = CogRollback(cstate, index)
            /\ ret' = CogCall("rollback", <<index>>, "None", StateData(cstate))
    /\ UNCHANGED <<stack, goals, arb, nodes, manager>>

\* state.add_listener(listener)
AddListenerCall ==
    /\ cstate' = [cstate EXCEPT !.listeners = IF @ = <<>> THEN <<"listener">> ELSE @]
    /\ ret' = CogCall("add_listener", <<>>, "None", <<>>)
    /\ UNCHANGED <<stack, goals, arb, nodes, manager>>

\* state.remove_listener(listener)
RemoveListenerCall ==
    /\ cstate' = [cstate EXCEPT !.listeners = <<>>]
    /\ ret' = CogCall("remove_listener", <<>>, "None", <<>>)
    /\ UNCHANGED <<stack, goals, arb, nodes, manager>>

NextCog ==
    \/ \E key \in CogKeys : GetCall(key)
    \/ \E key \in CogKeys, value \in CogValues : SetCall(key, value)
    \/ \E data \in UpdateData : UpdateCall(data)
    \/ SnapshotCall
    \/ \E index \in RollbackIndices : RollbackCall(index)
    \/ AddListenerCall
    \/ RemoveListenerCall

SpecCog == InitCog /\ [][NextCog]_vars

\* ----------------------------------------------------------- core/traits.py

\* The arithmetic of the traits rounds as float arithmetic does: a result is
\* the nearest number of MantissaBits significant bits, the one of even
\* mantissa if two are equally near (53 bits for doubles, scaled to the values
\* of the model).
MantissaBits == 5

\* The exponents of the values of the runs lie within -MaxExponent..MaxExponent.
MaxExponent == 12

\* 2^e for an integer e.
TwoTo(e) == IF e >= 0 THEN <<Pow2(e), 1>> ELSE <<1, Pow2(-e)>>

\* The exponent e of a positive a: 2^e <= a < 2^(e+1).
FloatExponent(a) ==
    CHOOSE e \in -MaxExponent..MaxExponent : RLe(TwoTo(e), a) /\ RLt(a, TwoTo(e + 1))

\* The integer nearest to the non-negative q, the even one of two equally near.
NearestEven(q) ==
    CHOOSE r \in
        { IF 2 * (q[1] % q[2]) < q[2] THEN fl
          ELSE IF 2 * (q[1] % q[2]) > q[2] THEN fl + 1
          ELSE IF fl % 2 = 0 THEN fl ELSE fl + 1 :
          fl \in {q[1] \div q[2]} } : TRUE

\* The float nearest to x.
FloatRound(x) ==
    IF x[1] = 0 THEN RZero
    ELSE CHOOSE r \in
        { RMul(<<(IF x[1] < 0 THEN -1 ELSE 1) * NearestEven(RDiv(RAbs(x), ulp)), 1>>, ulp) :
          ulp \in {TwoTo(FloatExponent(RAbs(x)) - MantissaBits + 1)} } : TRUE

\* float +, - and *
FAdd(a, b) == FloatRound(RAdd(a, b))

FSub(a, b) == FloatRound(RSub(a, b))

FMul(a, b) == FloatRound(RMul(a, b))

\* b ** t for a whole t >= 0
RECURSIVE RPow(_, _)
RPow(b, n) == IF n = 0 THEN ROne ELSE RMul(b, RPow(b, n - 1))

FPow(b, t) == FloatRound(RPow(b, t[1]))

\* The traits: GreedyTrait(), DependencyAmplifierTrait(), TimeDecayTrait(),
\* StateBoostTrait(key, threshold, boost) and TraitStack(traits).
\* UrgencyClamperTrait defines no modify and cannot be instantiated;
\* EntropicStabilizerTrait and RecursiveRewardTrait return a constant times a
\* value of the state, as DependencyAmplifierTrait does of dep_value.
GreedyTrait == [cls |-> "GreedyTrait"]

DependencyAmplifierTrait == [cls |-> "DependencyAmplifierTrait"]

TimeDecayTrait == [cls |-> "TimeDecayTrait"]

StateBoostTrait(key, threshold, boost) ==
    [cls |-> "StateBoostTrait", key |-> key, threshold |-> threshold, boost |-> boost]

TraitStack(traits) == [cls |-> "TraitStack", traits |-> traits]

\* state.get(key, default) on a dictionary that is a function on its keys.
TraitStateGet(state, key, default) == IF key \in DOMAIN state THEN state[key] ELSE default

RECURSIVE AdjustUrgency(_, _, _)
RECURSIVE AdjustUtility(_, _, _)
RECURSIVE Modify(_, _)

\* A loop that hands every member the urgency the stack was given, and
\* returns the result of the last.
StackAdjustUrgencyUnchained(traits, i, base_urgency, t) ==
    IF traits = <<>> THEN base_urgency
    ELSE AdjustUrgency(traits[Len(traits)], base_urgency, t)

\* The loop of TraitStack.adjust_urgency from the member at position i on.
RECURSIVE StackAdjustUrgency(_, _, _, _)
StackAdjustUrgency(traits, i, base_urgency, t) ==
    IF i > Len(traits) THEN base_urgency
    ELSE StackAdjustUrgency(traits, i + 1, AdjustUrgency(traits[i], base_urgency, t), t)

\* The loop of TraitStack.adjust_utility from the member at position i on.
RECURSIVE StackAdjustUtility(_, _, _, _)
StackAdjustUtility(traits, i, base_utility, state) ==
    IF i > Len(traits) THEN base_utility
    ELSE StackAdjustUtility(traits, i + 1, AdjustUtility(traits[i], base_utility, state), state)

\* sum(...) of TraitStack.modify: from 0, the members' deltas are added in
\* list order, from the member at position i on.
RECURSIVE StackModify(_, _, _, _)
StackModify(traits, i, args, total) ==
    IF i > Len(traits) THEN total
    ELSE StackModify(traits, i + 1, args, FAdd(total, Modify(traits[i], args)))

\* trait.adjust_urgency(base_urgency, t=t, goal=goal)
AdjustUrgency(trait, base_urgency, t) ==
    CASE trait.cls = "TimeDecayTrait" -> FMul(base_urgency, FPow(FloatRound(<<19, 20>>), t))
      [] trait.cls = "TraitStack" -> StackAdjustUrgency(trait.traits, 1, base_urgency, t)
      [] OTHER -> base_urgency

\* trait.adjust_utility(base_utility, state=state, goal=goal)
AdjustUtility(trait, base_utility, state) ==
    CASE trait.cls = "TraitStack" -> StackAdjustUtility(trait.traits, 1, base_utility, state)
      [] OTHER -> base_utility

\* trait.modify(base=..., urgency=..., utility=..., dependencies=...,
\*              dep_value=..., state=..., goal=..., t=...)
Modify(trait, args) ==
    CASE trait.cls = "GreedyTrait" ->
             FSub(FMul(FloatRound(<<1, 5>>), FMul(args.utility, args.utility)),
                  FMul(FloatRound(<<1, 20>>), args.urgency))
      [] trait.cls = "DependencyAmplifierTrait" ->
             FMul(FloatRound(<<1, 10>>), args.dep_value)
      [] trait.cls = "TimeDecayTrait" -> RZero
      [] trait.cls = "StateBoostTrait" ->
             IF RLe(trait.threshold, TraitStateGet(args.state, trait.key, RZero))
             THEN trait.boost ELSE RZero
      [] OTHER -> StackModify(trait.traits, 1, args, RZero)

\* ------------------------------------------------------------ trait stack runs

\* The number of traits that are no stacks in a stack of the runs, nested
\* stacks included, and the depth to which the stacks of the runs nest.
MaxMembers == 3

MaxNesting == 2

\* The traits of the runs that are no stacks: one that adjusts the urgency,
\* and two whose deltas differ by MantissaBits - 1 binary orders of magnitude.
LeafTraits ==
    { TimeDecayTrait,
      StateBoostTrait("energy", <<1, 2>>, <<1, 2>>),
      StateBoostTrait("energy", <<1, 2>>, <<Pow2(MantissaBits - 1), 1>>) }

\* The number of traits that are no stacks in a trait, and its depth.
RECURSIVE Leaves(_)
RECURSIVE LeavesOfAll(_)
LeavesOfAll(traits) ==
    IF traits = <<>> THEN 0 ELSE Leaves(Head(traits)) + LeavesOfAll(Tail(traits))

Leaves(trait) == IF trait.cls = "TraitStack" THEN LeavesOfAll(trait.traits) ELSE 1

RECURSIVE Nesting(_)
RECURSIVE NestingOfAll(_)
NestingOfAll(traits) ==
    IF traits = <<>> THEN 0
    ELSE CHOOSE m \in
        { IF h < r THEN r ELSE h : h \in {Nesting(Head(traits))},
                                   r \in {NestingOfAll(Tail(traits))} } : TRUE

Nesting(trait) == IF trait.cls = "TraitStack" THEN 1 + NestingOfAll(trait.traits) ELSE 0

\* The arguments that the runs pass.
Urgencies == {ROne, <<3, 4>>}

TraitTimes == {<<2, 1>>}

TraitStates == {<<>>, [k \in {"energy"} |-> ROne]}

ModifyArgs ==
    { [base |-> <<2, 1>>, urgency |-> ROne, utility |-> <<2, 1>>, dependencies |-> <<>>,
       dep_value |-> RZero, state |-> s, goal |-> "A", t |-> ROne] : s \in TraitStates }

\* The most recent call on the stack.
StackCall(op, value, t, state, args, out) ==
    [op |-> op, value |-> value, t |-> t, state |-> state, args |-> args, out |-> out]

NoStackCall == StackCall("none", RZero, RZero, <<>>, <<>>, RZero)

InitStack ==
    /\ goals = [n \in {} |-> n]
    /\ arb = DefaultArbitrator
    /\ nodes = NoNodes
    /\ manager = NoManager
    /\ cstate = NoCognitiveState
    /\ stack = TraitStack(<<>>)
    /\ ret = NoStackCall

\* stack = TraitStack(traits), for the member lists that the runs build from
\* the stack they have.
NewTraitStack(traits) ==
    /\ LeavesOfAll(traits) <= MaxMembers
    /\ 1 + NestingOfAll(traits) <= MaxNesting
    /\ stack' = TraitStack(traits)
    /\ ret' = NoStackCall
    /\ UNCHANGED <<goals, arb, nodes, manager, cstate>>

\* stack.adjust_urgency(base_urgency, t=t, goal=goal)
AdjustUrgencyCall(base_urgency, t) ==
    /\ ret' = StackCall("adjust_urgency", base_urgency, t, <<>>, <<>>,
                        AdjustUrgency(stack, base_urgency, t))
    /\ UNCHANGED <<goals, arb, others>>

\* stack.adjust_utility(base_utility, state=state, goal=goal)
AdjustUtilityCall(base_utility, state) ==
    /\ ret' = StackCall("adjust_utility", base_utility, RZero, state, <<>>,
                        AdjustUtility(stack, base_utility, state))
    /\ UNCHANGED <<goals, arb, others>>

\* stack.modify(**args)
ModifyCall(args) ==
    /\ ret' = StackCall("modify", RZero, RZero, <<>>, args, Modify(stack, args))
    /\ UNCHANGED <<goals, arb, others>>

NextStack ==
    \/ \E trait \in LeafTraits : NewTraitStack(Append(stack.traits, trait))
    \/ \E trait \in LeafTraits : NewTraitStack(<<trait, stack>>)
    \/ NewTraitStack(<<stack>>)
    \/ \E base_urgency \in Urgencies, t \in TraitTimes : AdjustUrgencyCall(base_urgency, t)
    \/ \E base_utility \in Urgencies, state \in TraitStates :
         AdjustUtilityCall(base_utility, state)
    \/ \E args \in ModifyArgs : ModifyCall(args)

SpecStack == InitStack /\ [][NextStack]_vars

\* ------------------------------------------- properties of goal evaluation

\* The dependencies of the goal named n, as a set.
DepSet(G, n) == {G[n].dependencies[i] : i \in DOMAIN G[n].dependencies}

RECURSIVE Closure(_, _, _)
Closure(G, S, k) ==
    IF k = 0 THEN S
    ELSE Closure(G, S \cup UNION {DepSet(G, n) : n \in S}, k - 1)

\* The goals reached from n along one or more dependency edges.
Reachable(G, n) == Closure(G, DepSet(G, n), Cardinality(Names))

\* The evaluation of g walks into a dependency cycle.
ReachesCycle(G, g) == \E n \in {g} \cup Reachable(G, g) : n \in Reachable(G, n)

\* The urgency and the utility function of every goal that the evaluation of
\* g can reach return a value.
NoFault(G, g, t, state) ==
    \A n \in {g} \cup Reachable(G, g) :
        /\ CallUrgencyFn(G[n].urgency_fn, t).ok
        /\ CallUtilityFn(G[n].utility_fn, state).ok

IsEvaluation == ret.op = "effective_value"

\* urgency_fn(t) * utility_fn(state) of the goal of the last call.
OwnProduct ==
    RMul(CallUrgencyFn(goals[ret.goal].urgency_fn, ret.t).v,
         CallUtilityFn(goals[ret.goal].utility_fn, ret.state).v)

\* The effective values of the direct dependencies of the goal of the last
\* call, each evaluated on its own with the arguments of that call.
DepEvals ==
    [i \in DOMAIN goals[ret.goal].dependencies |->
        EffectiveValue(goals, goals[ret.goal].dependencies[i], ret.t, ret.state, 1)]

\* C1 (as claimed): effective_value on a dependency graph that contains a
\* cycle, none of whose functions raises, returns a finite non-negative value.
C1_CycleReturnsValue ==
    (IsEvaluation /\ ReachesCycle(goals, ret.goal)
         /\ NoFault(goals, ret.goal, ret.t, ret.state))
    => (ret.out.kind = "value" /\ RLe(RZero, ret.out.v))

\* C2 (as claimed): on an acyclic dependency graph a raising urgency or
\* utility function does not reach the caller of effective_value, which gets
\* a value.
C2_FaultDoesNotReachCaller ==
    (IsEvaluation /\ ~ReachesCycle(goals, ret.goal)) => ret.out.kind = "value"

\* C5: for a goal without traits effective_value is urgency_fn(t) *
\* utility_fn(state) plus the arithmetic mean of the effective values of its
\* n >= 1 direct dependencies (n times the dependency term is their sum), and
\* with no dependencies the dependency term is 0.
C5_DependencyMean ==
    (IsEvaluation /\ goals[ret.goal].traits = {} /\ ret.out.kind = "value")
    => LET n == Len(goals[ret.goal].dependencies)
           dep_term == RSub(ret.out.v, OwnProduct)
       IN  IF n = 0 THEN dep_term = RZero
           ELSE /\ \A i \in 1..n : DepEvals[i].ok
                /\ RMul(<<n, 1>>, dep_term) = RSum([i \in 1..n |-> DepEvals[i].v])

\* C5 witness: a goal without traits and with two dependencies was evaluated
\* to a value, and the sum of the dependencies' values differs from their mean.
C5_Witness ==
    /\ IsEvaluation
    /\ goals[ret.goal].traits = {}
    /\ Len(goals[ret.goal].dependencies) = 2
    /\ ret.out.kind = "value"
    /\ RAdd(DepEvals[1].v, DepEvals[2].v) # RZero

\* C6 (as claimed): for a goal without traits that has direct dependencies
\* effective_value is urgency_fn(t) * utility_fn(state) plus the sum of the
\* effective values of the dependencies.
C6_DependencySum ==
    (IsEvaluation /\ goals[ret.goal].traits = {} /\ ret.out.kind = "value"
         /\ goals[ret.goal].dependencies # <<>>)
    => LET n == Len(goals[ret.goal].dependencies)
       IN  ret.out.v = RAdd(OwnProduct, RSum([i \in 1..n |-> DepEvals[i].v]))

IsSelectGoal == ret.op = "select_goal"

IsNashArbitrate == ret.op = "nash_arbitrate"

\* The effective values of the goals of the arbitrator, each evaluated on
\* its own with the arguments of the last call.
ArbEvals ==
    [i \in DOMAIN arb.goals |-> EffectiveValue(goals, arb.goals[i], ret.t, ret.state, 1)]

AllEvalsOk == \A i \in DOMAIN arb.goals : ArbEvals[i].ok

\* No goal of the arbitrator is worth more than the one at position i.
IsGreatest(i) == \A j \in DOMAIN arb.goals : RLe(ArbEvals[j].v, ArbEvals[i].v)

\* g is the first goal in list order whose effective value is the greatest.
IsFirstGreatest(g) ==
    \E i \in DOMAIN arb.goals :
        /\ arb.goals[i] = g
        /\ IsGreatest(i)
        /\ \A j \in 1..(i - 1) : RLt(ArbEvals[j].v, ArbEvals[i].v)

\* The last call returned a goal whose effective value is the greatest.
ReturnedGreatest ==
    /\ ret.out.kind = "goal"
    /\ \E i \in DOMAIN arb.goals : arb.goals[i] = ret.out.goal /\ IsGreatest(i)

\* C3 (as claimed): select_goal of an arbitrator whose mode is none of max,
\* softmax, nash, lyapunov reports an invalid-configuration error.
C3_UnknownModeIsRejected ==
    (IsSelectGoal /\ arb.mode \notin KnownModes)
    => (ret.out.kind = "raise" /\ ret.out.exc = "ValueError")

\* C3 (amended): select_goal of an arbitrator whose mode is none of max,
\* softmax, nash, lyapunov never reports an invalid-configuration error; it
\* arbitrates as in max mode: None for an empty list, otherwise, if every
\* goal evaluates to a value, the first goal whose effective value is the
\* greatest.
C3_UnknownModeFallsBackToMax ==
    (IsSelectGoal /\ arb.mode \notin KnownModes)
    => /\ ret.out.exc # "ValueError"
       /\ arb.goals = <<>> => ret.out.kind = "None"
       /\ (arb.goals # <<>> /\ AllEvalsOk)
            => (ret.out.kind = "goal" /\ IsFirstGreatest(ret.out.goal))

\* C3 witness: an arbitrator with an unknown mode and two different goals, of
\* which the second is worth more, returned a goal.
C3_Witness ==
    /\ IsSelectGoal
    /\ arb.mode \notin KnownModes
    /\ Len(arb.goals) = 2
    /\ AllEvalsOk
    /\ RLt(ArbEvals[1].v, ArbEvals[2].v)
    /\ ret.out.kind = "goal"

\* C4 (as claimed): for every goal count other than two, select_goal in nash
\* mode and nash_arbitrate report an error.
C4_NashRejectsEveryOtherCount ==
    (Len(arb.goals) # 2 /\ (IsNashArbitrate \/ (IsSelectGoal /\ arb.mode = "nash")))
    => (ret.out.kind = "raise" /\ ret.out.exc = "ValueError")

\* C4 (amended): for every goal count other than two nash_arbitrate reports
\* an error; select_goal in nash mode reports an error for every goal count
\* other than zero and two, and returns None for an empty goal list.
C4_NashRejectsOtherCounts ==
    /\ (IsNashArbitrate /\ Len(arb.goals) # 2)
         => (ret.out.kind = "raise" /\ ret.out.exc = "ValueError")
    /\ (IsSelectGoal /\ arb.mode = "nash" /\ Len(arb.goals) \notin {0, 2})
         => (ret.out.kind = "raise" /\ ret.out.exc = "ValueError")
    /\ (IsSelectGoal /\ arb.mode = "nash" /\ arb.goals = <<>>)
         => ret.out.kind = "None"

\* C4 witness: nash_arbitrate was called on three goals that all evaluate to
\* a value.
C4_Witness ==
    /\ IsNashArbitrate
    /\ Len(arb.goals) = 3
    /\ AllEvalsOk
    /\ ret.out.kind = "raise"

\* C8: in max mode select_goal over a non-empty list of goals that evaluate
\* to values returns the first goal in list order whose effective value is
\* the greatest.
C8_MaxReturnsFirstGreatest ==
    (IsSelectGoal /\ arb.mode = "max" /\ arb.goals # <<>> /\ AllEvalsOk)
    => (ret.out.kind = "goal" /\ IsFirstGreatest(ret.out.goal))

\* C8 witness: max mode returned a goal from a list in which two different
\* goals share the greatest value.
C8_Witness ==
    /\ IsSelectGoal
    /\ arb.mode = "max"
    /\ AllEvalsOk
    /\ ret.out.kind = "goal"
    /\ \E i, j \in DOMAIN arb.goals :
          /\ i < j
          /\ arb.goals[i] # arb.goals[j]
          /\ ArbEvals[i].v = ArbEvals[j].v
          /\ IsGreatest(i)

\* C9: for a non-empty list of values and a temperature above 0, softmax
\* returns a list of the same length whose entries are non-negative and sum
\* to 1.
C9_SoftmaxIsDistribution ==
    (ret.op = "softmax" /\ ret.values # <<>>)
    => /\ ret.out.kind = "list"
       /\ Len(ret.out.list) = Len(ret.values)
       /\ \A i \in 1..Len(ret.out.list) : RLe(RZero, ret.out.list[i])
       /\ RSum(ret.out.list) = ROne

\* C9 witness: softmax was called on three values of which one is so far
\* below the greatest that its exponential underflowed to 0, and another
\* differs from the greatest.
C9_Witness ==
    /\ ret.op = "softmax"
    /\ Len(ret.values) = 3
    /\ \E i \in 1..3 : ret.out.list[i] = RZero
    /\ \E i, j \in 1..3 : /\ ret.out.list[i] # RZero
                          /\ ret.out.list[j] # RZero
                          /\ ret.out.list[i] # ret.out.list[j]

\* The value at position i is so close to the greatest that the exponential
\* that softmax computes for it rounds to 1.0.
RoundsToGreatest(i) ==
    \E k \in DOMAIN arb.goals :
        /\ IsGreatest(k)
        /\ RoundsToOne(RDiv(RSub(ArbEvals[i].v, ArbEvals[k].v), arb.temperature))

\* C10 (as claimed): in softmax mode select_goal over a non-empty list of
\* goals that evaluate to values returns a goal whose effective value is the
\* greatest.
C10_SoftmaxReturnsGreatestValue ==
    (IsSelectGoal /\ arb.mode = "softmax" /\ arb.goals # <<>> /\ AllEvalsOk)
    => ReturnedGreatest

\* C10 (amended): in softmax mode select_goal over a non-empty list of goals
\* that evaluate to values returns, without a draw, the first goal in list
\* order whose softmax probability is the greatest: the first goal whose
\* effective value is the greatest or so close below the greatest that
\* rounding gives it the same probability (its exponential rounds to 1.0).
C10_SoftmaxReturnsFirstGreatestProbability ==
    (IsSelectGoal /\ arb.mode = "softmax" /\ arb.goals # <<>> /\ AllEvalsOk)
    => /\ ret.out.kind = "goal"
       /\ \E i \in DOMAIN arb.goals :
             /\ arb.goals[i] = ret.out.goal
             /\ RoundsToGreatest(i)
             /\ \A j \in 1..(i - 1) : ~RoundsToGreatest(j)

\* C10 witness: softmax mode returned the first of two goals of which the
\* second is worth more, by less than the rounding distance.
C10_Witness ==
    /\ IsSelectGoal
    /\ arb.mode = "softmax"
    /\ Len(arb.goals) = 2
    /\ AllEvalsOk
    /\ RLt(ArbEvals[1].v, ArbEvals[2].v)
    /\ RoundsToGreatest(1)
    /\ ret.out.kind = "goal"
    /\ ret.out.goal = arb.goals[1]

\* The engagement probabilities <<p1, p2>> with which the iteration of the
\* last call ends, for an arbitrator of two goals that evaluate to values.
FinalProbabilities ==
    NashLoop(ArbEvals[1].v, ArbEvals[2].v, << <<1, 2>>, <<1, 2>> >>, arb.nash_iterations)

\* The last call ran the Nash iteration on two goals that evaluate to values.
IsNashRun ==
    /\ IsNashArbitrate \/ (IsSelectGoal /\ arb.mode = "nash")
    /\ Len(arb.goals) = 2
    /\ AllEvalsOk

\* C11: nash_arbitrate returns the goal whose final engagement probability
\* is strictly higher; when the two final probabilities are equal it returns
\* the goal with the higher effective value, the first goal if those are
\* equal too; and two goals with identical effective values end the
\* iteration with equal engagement probabilities.
C11_NashChoice ==
    IsNashRun =>
        \E p \in {FinalProbabilities} :
            /\ ret.out.kind = "goal"
            /\ RLt(p[2], p[1]) => ret.out.goal = arb.goals[1]
            /\ RLt(p[1], p[2]) => ret.out.goal = arb.goals[2]
            /\ (p[1] = p[2] /\ RLt(ArbEvals[2].v, ArbEvals[1].v))
                  => ret.out.goal = arb.goals[1]
            /\ (p[1] = p[2] /\ RLt(ArbEvals[1].v, ArbEvals[2].v))
                  => ret.out.goal = arb.goals[2]
            /\ ArbEvals[1].v = ArbEvals[2].v
                  => (p[1] = p[2] /\ ret.out.goal = arb.goals[1])

\* C11 witness: nash_arbitrate ran on two different goals of identical
\* effective value and returned the first.
C11_Witness ==
    /\ IsNashArbitrate
    /\ Len(arb.goals) = 2
    /\ AllEvalsOk
    /\ arb.goals[1] # arb.goals[2]
    /\ ArbEvals[1].v = ArbEvals[2].v
    /\ FinalProbabilities[1] = FinalProbabilities[2]
    /\ ret.out.kind = "goal"
    /\ ret.out.goal = arb.goals[1]

\* ------------------------------------- properties of lyapunov arbitration

\* The last call was select_goal in lyapunov mode on a non-empty list of
\* goals that evaluate to values.
IsLyapunovRun ==
    /\ IsSelectGoal
    /\ arb.mode = "lyapunov"
    /\ arb.goals # <<>>
    /\ AllEvalsOk

\* The scores that the last call gave the goals, in list order: those of
\* the loop of lyapunov_arbitrate started on the history that the call found.
LastScores ==
    LyapunovScan(goals, arb, ret.t, ret.state, 1, <<>>, ret.history).scores

\* In the last call the goal at position i rose above (fell below) the value
\* that the history held for it, and the history held that value when the
\* loop reached position i: no earlier position holds the same goal.
Rose(i) ==
    /\ ret.history[arb.goals[i]] # Absent
    /\ RLt(ret.history[arb.goals[i]], ArbEvals[i].v)
    /\ \A k \in 1..(i - 1) : arb.goals[k] # arb.goals[i]

Fell(i) ==
    /\ ret.history[arb.goals[i]] # Absent
    /\ RLt(ArbEvals[i].v, ret.history[arb.goals[i]])
    /\ \A k \in 1..(i - 1) : arb.goals[k] # arb.goals[i]

\* The first call on a fresh arbitrator scores every goal by its current
\* effective value alone and returns the first goal of greatest value.
FirstCallUsesCurrentValue ==
    (IsLyapunovRun /\ ret.history = NoHistory)
    => /\ \A i \in DOMAIN arb.goals : LastScores[i] = ArbEvals[i].v
       /\ ret.out.kind = "goal"
       /\ IsFirstGreatest(ret.out.goal)

\* Of two goals of equal current value of which one rose and one fell, the
\* one that rose got the strictly higher score and the one that fell was not
\* returned.
RisingBeatsFalling ==
    \A i, j \in DOMAIN arb.goals :
        (Rose(i) /\ Fell(j) /\ ArbEvals[i].v = ArbEvals[j].v)
        => /\ RLt(LastScores[j], LastScores[i])
           /\ ret.out.goal # arb.goals[j]

\* C12 (as claimed): in lyapunov mode the first call on a fresh arbitrator
\* scores every goal by its current effective value alone and selects the
\* goal of greatest current value; on a later call, of two goals of equal
\* current value, the one whose value rose since the call before gets a
\* strictly higher score than the one whose value fell and is the one
\* selected among the two.
C12_LyapunovRewardsRise ==
    /\ FirstCallUsesCurrentValue
    /\ IsLyapunovRun => RisingBeatsFalling

\* C12 (amended): the same, the second part for an arbitrator whose delta_t
\* is above 0.
C12_LyapunovRewardsRiseForPositiveDeltaT ==
    /\ FirstCallUsesCurrentValue
    /\ (IsLyapunovRun /\ RLt(RZero, arb.delta_t)) => RisingBeatsFalling

\* C12 witness: a second call on an arbitrator with delta_t above 0 found a
\* goal that fell listed before a goal of equal current value that rose, and
\* returned the one that rose.
C12_Witness ==
    /\ IsLyapunovRun
    /\ RLt(RZero, arb.delta_t)
    /\ \E i, j \in DOMAIN arb.goals :
          /\ j < i
          /\ Rose(i)
          /\ Fell(j)
          /\ ArbEvals[i].v = ArbEvals[j].v
          /\ ret.out.kind = "goal"
          /\ ret.out.goal = arb.goals[i]

\* The names of the goals of the arbitrator.
Listed == {arb.goals[i] : i \in DOMAIN arb.goals}

\* C13: every lyapunov arbitration that returns leaves, under the name of
\* each goal of the list, that goal's current effective value as the history
\* for the next call, and leaves the history of every other name as it
\* found it.
C13_LyapunovRecordsHistory ==
    IsLyapunovRun =>
        /\ \A i \in DOMAIN arb.goals : arb.previous_values[arb.goals[i]] = ArbEvals[i].v
        /\ \A n \in Names \ Listed : arb.previous_values[n] = ret.history[n]

\* Two lyapunov arbitrations made in immediate succession from the current
\* state with the time t and the state st return different goals.
SuccessiveCallsDiffer(t, st) ==
    \E r1 \in {LyapunovArbitrate(goals, arb, t, st)} :
        \E r2 \in {LyapunovArbitrate(goals, r1.arb, t, st)} :
            /\ r1.ok /\ r2.ok
            /\ r1.goal # "None" /\ r2.goal # "None"
            /\ r1.goal # r2.goal

\* C13 witness: a lyapunov arbitration has left a history from which two
\* arbitrations in immediate succession with identical goals, time and state
\* return different goals.
C13_Witness ==
    /\ IsLyapunovRun
    /\ \E i \in DOMAIN arb.goals : arb.previous_values[arb.goals[i]] = ArbEvals[i].v
    /\ \E t \in ArbTimes, st \in ArbStates : SuccessiveCallsDiffer(t, st)

\* ------------------------------------------------------ properties of select

IsSelect == ret.op = "select"

\* C14 (as claimed): a select call, and a select_goal call in max, softmax or
\* nash mode, leaves the arbitrator's goal list, mode, parameters and history
\* as they were.
C14_CallsLeaveArbitratorUnchanged ==
    [][(ret'.op \in {"select", "select_goal"} /\ arb.mode \in StatelessModes)
          => arb' = arb]_vars

\* The goals that are keys of the dictionary of the last select call.
KeySet == {ret.values[i][1] : i \in DOMAIN ret.values}

\* What select returned is None for an empty map, one of the two keys for a
\* map of two entries, and for every other size a mapping whose keys are
\* exactly the input goals and whose values are non-negative and sum to 1.
SelectResult ==
    IsSelect =>
        CASE Len(ret.values) = 0 -> ret.out.kind = "None"
          [] Len(ret.values) = 2 -> ret.out.kind = "goal" /\ ret.out.goal \in KeySet
          [] OTHER ->
               /\ ret.out.kind = "dict"
               /\ DictKeys(ret.out.list) = DictKeys(ret.values)
               /\ \A i \in DOMAIN ret.out.list : RLe(RZero, ret.out.list[i][2])
               /\ RSum(DictValues(ret.out.list)) = ROne

\* Every key of the dictionary of the last select call evaluates to a value
\* at t = 0.0 on the state {}, where select has nash_arbitrate evaluate the
\* keys of a dictionary of two entries.
KeysEvaluate ==
    \A n \in KeySet : EffectiveValue(goals, n, RZero, EmptyState, 1).ok

C16_SelectGoalReturnsMember ==
    IsSelectGoal =>
        /\ arb.goals = <<>> => ret.out.kind = "None"
        /\ ret.out.kind = "goal" => (arb.goals # <<>> /\ ret.out.goal \in Listed)

\* C16 witness: select_goal was called in nash mode on an empty goal list and
\* returned None.
C16_Witness ==
    /\ IsSelectGoal
    /\ arb.mode = "nash"
    /\ arb.goals = <<>>
    /\ ret.out.kind = "None"

\* ------------------------------------- properties of the recursive manager

\* The last call was a step of the manager that returned a value.
IsStep == ret.op = "step" /\ ret.out.kind = "value"

\* The select calls that the last step made at the node n.
SelectsAt(n) == {i \in DOMAIN ret.selects : ret.selects[i][1] = n}

\* The nodes that the last step evaluated recursively.
Visited == {ret.visited[i] : i \in DOMAIN ret.visited}

\* The map of the direct children's own values at the node n.
ChildValues(n, state) ==
    [i \in DOMAIN nodes[n].subgoals |->
        <<nodes[n].subgoals[i], Evaluate(nodes[nodes[n].subgoals[i]].kind, manager.t, state).v>>]

\* The value of the subtree below the node n.
SubtreeValue(n, state) == EvaluateRecursive(nodes, manager, n, state).v

\* The arbitrator is called once at each non-leaf that the step evaluated, on
\* the map of its children's values, and at no leaf.
SelectsOncePerNonLeaf ==
    \A n \in Visited :
        IF nodes[n].subgoals = <<>> THEN SelectsAt(n) = {}
        ELSE /\ Cardinality(SelectsAt(n)) = 1
             /\ \A i \in SelectsAt(n) : ret.selects[i][2] = ChildValues(n, ret.state)

\* The value of the root: a leaf's own value; the value of the selected
\* child's subtree, the only one evaluated, if the arbitrator returns a goal;
\* the sum of weight * sub-value over all the children, each evaluated, if it
\* returns a distribution.
RootValue ==
    \E g \in {manager.root_goal} :
        IF nodes[g].subgoals = <<>>
        THEN ret.out.v = Evaluate(nodes[g].kind, manager.t, ret.state).v
        ELSE \E selected \in {ManagerSelect(manager, ChildValues(g, ret.state))} :
                IF selected.kind = "goal"
                THEN /\ ret.out.v = SubtreeValue(selected.goal, ret.state)
                     /\ Visited \subseteq {g} \cup Subtree(nodes, selected.goal)
                ELSE /\ \A i \in DOMAIN nodes[g].subgoals : nodes[g].subgoals[i] \in Visited
                     /\ DictKeys(selected.dict) = nodes[g].subgoals
                     /\ ret.out.v =
                            RSum([i \in DOMAIN selected.dict |->
                                     RMul(selected.dict[i][2],
                                          SubtreeValue(selected.dict[i][1], ret.state))])

\* C17: a step of the manager that returns a value evaluates its root so: a
\* leaf returns its own value without a call of the arbitrator; at a non-leaf
\* the arbitrator is called once on the map of the direct children's values;
\* if it returns a single goal only that child's subtree is evaluated and its
\* value returned; if it returns a distribution every child is evaluated
\* recursively and the result is the sum of weight * sub-value over all
\* children.
C17_EvaluateRecursive == IsStep => (SelectsOncePerNonLeaf /\ RootValue)

\* C17 witness: a step in softmax mode returned the blend of two children of
\* the root, one of them with a subgoal of its own whose value is not the
\* child's own value.
C17_Witness ==
    /\ IsStep
    /\ manager.mode = "softmax"
    /\ Len(nodes[manager.root_goal].subgoals) = 2
    /\ \E i \in DOMAIN nodes[manager.root_goal].subgoals :
          \E c \in {nodes[manager.root_goal].subgoals[i]} :
             /\ nodes[c].subgoals # <<>>
             /\ SubtreeValue(c, ret.state) # Evaluate(nodes[c].kind, manager.t, ret.state).v

\* ------------------------------------------ purity of the goal evaluation

\* The step is an effective_value call with the goal, t and state of the
\* effective_value call before it, with nothing in between.
RepeatsCall ==
    /\ ret.op = "effective_value"
    /\ ret'.op = "effective_value"
    /\ ret'.goal = ret.goal
    /\ ret'.t = ret.t
    /\ ret'.state = ret.state

IsRollback == ret.op = "rollback" /\ ret.arg = <<-1>>

\* The stored snapshots are the state data at the moments they were taken.
SnapshotsKept ==
    /\ Len(cstate.history) = Len(cstate.taken)
    /\ \A i \in DOMAIN cstate.history : cstate.heap[cstate.history[i]] = cstate.taken[i]

\* C19: whatever set and update calls were made, the stored snapshots are as
\* they were taken; rollback() leaves the state data equal to the data at the
\* moment of the most recent snapshot and keeps the snapshots; without any
\* snapshot it raises IndexError and leaves the state data as they were.
C19_RollbackRestoresSnapshot ==
    /\ SnapshotsKept
    /\ IsRollback =>
          IF cstate.taken = <<>>
          THEN ret.out = "IndexError" /\ StateData(cstate) = ret.before
          ELSE ret.out = "None" /\ StateData(cstate) = cstate.taken[Len(cstate.taken)]

\* C19 witness: rollback() returned and changed the state data, which
\* differed from the most recent of two snapshots.
C19_Witness ==
    /\ IsRollback
    /\ ret.out = "None"
    /\ Len(cstate.taken) = 2
    /\ StateData(cstate) # ret.before
    /\ cstate.taken[1] # cstate.taken[2]

\* ----------------------------------------- properties of the trait stack

\* The members of a trait in list order, with every nested stack replaced by
\* its members: a trait that is no stack is its own single member.
RECURSIVE Flatten(_)
RECURSIVE FlattenAll(_)
FlattenAll(traits) ==
    IF traits = <<>> THEN <<>> ELSE Flatten(Head(traits)) \o FlattenAll(Tail(traits))

Flatten(trait) ==
    IF trait.cls = "TraitStack" THEN FlattenAll(trait.traits) ELSE <<trait>>

\* The single stack of the flattened member list of the stack.
FlatStack == TraitStack(Flatten(stack))

\* What the last n members make of the urgency v, each given the output of
\* the member before it.
RECURSIVE UrgencyChain(_, _, _, _)
UrgencyChain(traits, n, v, t) ==
    IF n = 0 THEN v
    ELSE AdjustUrgency(traits[n], UrgencyChain(traits, n - 1, v, t), t)

RECURSIVE UtilityChain(_, _, _, _)
UtilityChain(traits, n, v, state) ==
    IF n = 0 THEN v
    ELSE AdjustUtility(traits[n], UtilityChain(traits, n - 1, v, state), state)

\* The sum of the modify deltas of the first n members.
RECURSIVE DeltaSum(_, _, _)
DeltaSum(traits, n, args) ==
    IF n = 0 THEN RZero
    ELSE FAdd(DeltaSum(traits, n - 1, args), Modify(traits[n], args))

\* The last call on the stack returned the fold over the members, and for
\* modify the sum of the members' deltas.
ForwardsByFolding ==
    CASE ret.op = "adjust_urgency" ->
             ret.out = UrgencyChain(stack.traits, Len(stack.traits), ret.value, ret.t)
      [] ret.op = "adjust_utility" ->
             ret.out = UtilityChain(stack.traits, Len(stack.traits), ret.value, ret.state)
      [] ret.op = "modify" -> ret.out = DeltaSum(stack.traits, Len(stack.traits), ret.args)
      [] OTHER -> TRUE

\* The last call returned what the same call returns on the flattened stack.
SameAsFlat ==
    CASE ret.op = "adjust_urgency" -> ret.out = AdjustUrgency(FlatStack, ret.value, ret.t)
      [] ret.op = "adjust_utility" -> ret.out = AdjustUtility(FlatStack, ret.value, ret.state)
      [] ret.op = "modify" -> ret.out = Modify(FlatStack, ret.args)
      [] OTHER -> TRUE

\* Every nested stack of more than one member stands first in its list, so
\* that the nested sums add the deltas in the grouping of the flattened sum.
RECURSIVE GroupsLikeFlat(_)
GroupsLikeFlat(trait) ==
    trait.cls = "TraitStack" =>
        \A i \in DOMAIN trait.traits :
            /\ GroupsLikeFlat(trait.traits[i])
            /\ trait.traits[i].cls = "TraitStack" =>
                  (i = 1 \/ Len(Flatten(trait.traits[i])) <= 1)

\* C20 (as claimed): a TraitStack folds adjust_urgency and adjust_utility
\* over its members in list order and sums their modify deltas, and a stack
\* that contains nested stacks gives the same three results as the single
\* stack of the flattened member list.
C20_NestedStackIsFlatStack == ForwardsByFolding /\ SameAsFlat

\* C20 (amended): a TraitStack folds adjust_urgency and adjust_utility over
\* its members in list order and sums their modify deltas; a stack that
\* contains nested stacks gives the adjust_urgency and adjust_utility results
\* of the flattened stack, and its modify result too if every nested stack of
\* more than one member stands first in its list.
C20_NestedStackIsFlatStackUpToGrouping ==
    /\ ForwardsByFolding
    /\ (ret.op \in {"adjust_urgency", "adjust_utility"} \/ GroupsLikeFlat(stack)) => SameAsFlat

\* C20 witness: modify on a stack whose first member is a stack of two traits
\* returned the sum of three deltas, none of them 0.
C20_Witness ==
    /\ ret.op = "modify"
    /\ Len(stack.traits) = 2
    /\ stack.traits[1].cls = "TraitStack"
    /\ Len(stack.traits[1].traits) = 2
    /\ \A i \in 1..3 : Modify(Flatten(stack)[i], ret.args) # RZero
    /\ ret.out # RZero

\* --------------------------------------- properties of the best-response loop

\* The loop of the last call, for an arbitrator of two goals that evaluate
\* to values.
LastNashRun == NashRun(ArbEvals[1].v, ArbEvals[2].v, arb.nash_iterations)

\* C21: the best-response loop of nash_arbitrate enters its first iteration
\* with the engagement probabilities (0.5, 0.5) and runs at most
\* nash_iterations iterations; with the default budget of 20 it leaves
\* through the convergence check before the budget is used up, whatever the
\* signs of the two effective values, and where it leaves through the
\* convergence check the probabilities are a fixed point of the best
\* responses; the goal returned is chosen from the probabilities the loop
\* ends with.
C21_NashLoopConverges ==
    IsNashRun =>
        \E run \in {LastNashRun} :
            /\ run.entered # <<>> => run.entered[1] = << <<1, 2>>, <<1, 2>> >>
            /\ arb.nash_iterations = 0 => run.p = << <<1, 2>>, <<1, 2>> >>
            /\ Len(run.entered) <= arb.nash_iterations
            /\ arb.nash_iterations = DefaultNashIterations
                  => (run.converged /\ Len(run.entered) < DefaultNashIterations)
            /\ run.converged
                  => NashStep(ArbEvals[1].v, ArbEvals[2].v, run.p[1], run.p[2]) = run.p
            /\ ret.out.kind = "goal"
            /\ ret.out.goal = arb.goals[NashChoice(run.p, ArbEvals[1].v, ArbEvals[2].v)]

\* C21 witness: nash_arbitrate ran with the default budget on a first goal
\* worth more than 0 and a second goal worth less than 0, and its loop left
\* through the convergence check in a third iteration, after both
\* probabilities had moved.
C21_Witness ==
    /\ IsNashRun
    /\ IsNashArbitrate
    /\ arb.nash_iterations = DefaultNashIterations
    /\ RLt(RZero, ArbEvals[1].v)
    /\ RLt(ArbEvals[2].v, RZero)
    /\ LastNashRun.converged
    /\ Len(LastNashRun.entered) = 3
    /\ LastNashRun.entered[3] # LastNashRun.entered[1]
    /\ ret.out.kind = "goal"

\* What select_goal of the same arbitrator in max mode returns for the
\* arguments of the last call.
MaxModeResult == SelectGoal(goals, [arb EXCEPT !.mode = "max"], ret.t, ret.state)

\* C22: for two goals that evaluate to values of any signs, nash_arbitrate
\* (called directly or by select_goal in nash mode, with any iteration
\* budget) returns the goal that select_goal in max mode returns: the goal
\* with the greater effective value, and the first goal when the two values
\* are equal.
C22_NashReturnsWhatMaxReturns ==
    IsNashRun =>
        \E m \in {MaxModeResult} :
            /\ ret.out.kind = "goal"
            /\ m.ok
            /\ ret.out.goal = m.goal
            /\ RLt(ArbEvals[2].v, ArbEvals[1].v) => ret.out.goal = arb.goals[1]
            /\ RLt(ArbEvals[1].v, ArbEvals[2].v) => ret.out.goal = arb.goals[2]
            /\ ArbEvals[1].v = ArbEvals[2].v => ret.out.goal = arb.goals[1]

\* C22 witness: select_goal in nash mode ran on a first goal worth less
\* than 0 and a second goal worth more than 0 but less than the first goal
\* loses, ended with the probabilities (0, 1) and returned the second goal.
C22_Witness ==
    /\ IsNashRun
    /\ IsSelectGoal
    /\ RLt(ArbEvals[1].v, RZero)
    /\ RLt(RZero, ArbEvals[2].v)
    /\ RLt(RAdd(ArbEvals[1].v, ArbEvals[2].v), RZero)
    /\ LastNashRun.p = <<RZero, ROne>>
    /\ ret.out.kind = "goal"
    /\ ret.out.goal = arb.goals[2]
    /\ MaxModeResult.goal = arb.goals[2]

\* ------------------------------------ properties of select on supplied values

\* The value that the map of the last select call supplies for the goal g.
SuppliedValue(g) ==
    ret.values[CHOOSE i \in DOMAIN ret.values : ret.values[i][1] = g][2]

\* C23 (as claimed): for a map with exactly two entries select returns the
\* goal with the larger supplied value, whatever the two goals' own urgency
\* and utility functions evaluate to; stated here for keys whose own
\* evaluation at t = 0.0 on the state {} returns, where select returns a goal.
C23_SelectReturnsLargerSuppliedValue ==
    (IsSelect /\ Len(ret.values) = 2 /\ KeysEvaluate)
    => /\ ret.out.kind = "goal"
       /\ ret.out.goal \in KeySet
       /\ \A g \in KeySet : RLe(SuppliedValue(g), SuppliedValue(ret.out.goal))

=============================================================================
